---- MODULE Spec2Model ----
(***************************************************************************)
(* EFSM-gated REPL of contributing/samples/adk_rlm_minimal: the state      *)
(* dictionary handled by REPLStateManager (repl_state.py), the tools that  *)
(* drive it (tools.py) and the sandboxed console (repl_env.py).            *)
(***************************************************************************)
EXTENDS Integers, Sequences, FiniteSets, TLC

\* ------------------------------------------------------------------ bounds
\* cap on repl_iteration: execute_code is not offered once it is reached
MaxIteration == 2

\* cap on the integers bound in a console's namespace: ADKREPLEnvironment.execute
\* is not offered once the code would bind a larger one
MaxInt == 9

\* --------------------------------------------------- repl_state.py: enums
IDLE == "idle"
CODE_PENDING_REVIEW == "code_pending_review"
CODE_APPROVED == "code_approved"
CODE_REJECTED == "code_rejected"
EXECUTING == "executing"
COMPLETE == "complete"

REPLState ==
  {IDLE, CODE_PENDING_REVIEW, CODE_APPROVED, CODE_REJECTED, EXECUTING, COMPLETE}

NONE == "none"
BASIC == "basic"
STRICT == "strict"

SecurityLevel == {NONE, BASIC, STRICT}

\* a key that is absent from the state dictionary / a None value
NoCode == "no_code"
NoAnswer == "no_answer"

\* ------------------------------------------- repl_state.py: the EFSM table
\* the dictionary built by the default_factory of the VALID_TRANSITIONS field
VALID_TRANSITIONS ==
  [s \in REPLState |->
     CASE s = IDLE -> {CODE_PENDING_REVIEW, COMPLETE}
       [] s = CODE_PENDING_REVIEW -> {CODE_APPROVED, CODE_REJECTED, COMPLETE}
       [] s = CODE_APPROVED -> {EXECUTING, COMPLETE}
       [] s = CODE_REJECTED -> {IDLE, COMPLETE}
       [] s = EXECUTING -> {IDLE, COMPLETE}
       [] s = COMPLETE -> {}]

\* REPLStateManager is a @dataclass. The names of its fields that are also
\* attributes of the class object: a field with a plain default stays on the
\* class, a field declared with field(default_factory=...) is deleted from
\* it and exists on instances only. VALID_TRANSITIONS, the only field, is of
\* the second kind.
ClassAttributeFields == {}

\* the exception that leaves a call, NoError when it returns
NoError == "no_error"
AttributeError == "AttributeError"
ValueError == "ValueError"
Raised == {AttributeError, ValueError}

\* can_transition is a classmethod: `cls.VALID_TRANSITIONS` is looked up on
\* the class object, also when the method is called on an instance
can_transition(from_state, to_state) ==
  IF "VALID_TRANSITIONS" \notin ClassAttributeFields
    THEN [raised |-> AttributeError, value |-> FALSE]
    ELSE [raised |-> NoError, value |-> to_state \in VALID_TRANSITIONS[from_state]]

\* transition_to: the value written to state[REPL_STATE_KEY], or the
\* exception that leaves the key as it was. `validate and not
\* cls.can_transition(...)` calls can_transition only when validate is set.
transition_to_unvalidated(current_state, new_state, validate) ==
  [raised |-> NoError, state |-> new_state]

transition_to(current_state, new_state, validate) ==
  IF validate /\ can_transition(current_state, new_state).raised # NoError
    THEN [raised |-> can_transition(current_state, new_state).raised,
          state |-> current_state]
  ELSE IF validate /\ ~can_transition(current_state, new_state).value
    THEN [raised |-> ValueError, state |-> current_state]
  ELSE [raised |-> NoError, state |-> new_state]

\* ------------------------------------------------ text: strings as tuples
\* A Python str is a tuple of one-character strings; a code string is held
\* as the tuple of its lines (code_str.split('\n')).
NL == "\n"

StartsWith(s, p) ==
  /\ Len(p) <= Len(s)
  /\ SubSeq(s, 1, Len(p)) = p

EndsWith(s, p) ==
  /\ Len(p) <= Len(s)
  /\ SubSeq(s, Len(s) - Len(p) + 1, Len(s)) = p

\* p in s
Contains(s, p) ==
  \E i \in 1..(Len(s) - Len(p) + 1) : SubSeq(s, i, i + Len(p) - 1) = p

\* s.find(ch), 0-based, -1 when absent
Find(s, ch) ==
  IF \E i \in 1..Len(s) : s[i] = ch
    THEN (CHOOSE i \in 1..Len(s) : s[i] = ch /\ \A j \in 1..(i - 1) : s[j] # ch) - 1
    ELSE -1

\* s.split(ch)[0]
SplitFirst(s, ch) ==
  IF Find(s, ch) = -1 THEN s ELSE SubSeq(s, 1, Find(s, ch))

Whitespace == {" ", "\t", NL}

RECURSIVE LStrip(_)
LStrip(s) ==
  IF s # <<>> /\ Head(s) \in Whitespace THEN LStrip(Tail(s)) ELSE s

RECURSIVE RStrip(_)
RStrip(s) ==
  IF s # <<>> /\ s[Len(s)] \in Whitespace
    THEN RStrip(SubSeq(s, 1, Len(s) - 1))
    ELSE s

\* str.strip()
Strip(s) == LStrip(RStrip(s))

\* '\n'.join(lines)
RECURSIVE Join(_)
Join(lines) ==
  IF lines = <<>> THEN <<>>
  ELSE IF Len(lines) = 1 THEN lines[1]
  ELSE lines[1] \o <<NL>> \o Join(Tail(lines))

\* ------------------------------------------------- sandboxed code strings
\* A line of submitted code: its text and what Python does when it runs it.
\*   k = "print"   print(t)                 statement, writes t to stdout
\*   k = "assign"  v = val                  statement, binds v
\*   k = "raise"   raise ValueError(t)      statement, faults with message t
\*   k = "name"    v                        expression, NameError when unbound
\*   k = "div0"    1/0                      expression, ZeroDivisionError
\*   k = "import"  import v                 binds v to the module
\*   k = "syscall" v.system("ls")           expression, runs a shell, value 0
\*   k = "incr"    v = v + 1              statement, NameError when unbound
\*   k = "floordiv" val // (v - val)       expression, NameError when unbound,
\*                                         ZeroDivisionError when v = val
\*   k = "assign_none" v = None             statement, binds v to None
\*   k = "comment" # ...                    comment line
\*   k = "blank"   empty line
Line(text, k, v, val, t) == [text |-> text, k |-> k, v |-> v, val |-> val, t |-> t]

L_assign5 == Line(<<"x", " ", "=", " ", "5">>, "assign", "x", 5, "")
L_assign6 == Line(<<"x", " ", "=", " ", "6">>, "assign", "x", 6, "")
L_print_a == Line(<<"p", "r", "i", "n", "t", "(", "\"", "a", "\"", ")">>, "print", "", 0, "a")
L_raise ==
  Line(<<"r", "a", "i", "s", "e", " ", "V", "a", "l", "u", "e", "E", "r", "r", "o", "r",
         "(", "\"", "b", "o", "o", "m", "\"", ")">>, "raise", "", 0, "boom")
L_x == Line(<<"x">>, "name", "x", 0, "")
L_div0 == Line(<<"1", "/", "0">>, "div0", "", 0, "")
L_import_os == Line(<<"i", "m", "p", "o", "r", "t", " ", "o", "s">>, "import", "os", 0, "")
L_os_system ==
  Line(<<"o", "s", ".", "s", "y", "s", "t", "e", "m", "(", "\"", "l", "s", "\"", ")">>,
       "syscall", "os", 0, "")
L_incr == Line(<<"x", " ", "=", " ", "x", " ", "+", " ", "1">>, "incr", "x", 0, "")
L_floordiv ==
  Line(<<"6", " ", "/", "/", " ", "(", "x", " ", "-", " ", "6", ")">>, "floordiv", "x", 6, "")
L_blank == Line(<<>>, "blank", "", 0, "")
L_assign_none ==
  Line(<<"x", " ", "=", " ", "N", "o", "n", "e">>, "assign_none", "x", 0, "")
L_comment == Line(<<"#", " ", "c">>, "comment", "", 0, "")
L_llm_query ==
  Line(<<"l", "l", "m", "_", "q", "u", "e", "r", "y", "(", "'", "p", "'", ")">>,
       "llm_call", "llm_query", 0, "")

\* the code strings a caller submits, by name
Source ==
  [c_assign |-> <<L_assign5>>,
   c_expr |-> <<L_x>>,
   c_print_raise |-> <<L_print_a, L_raise>>,
   c_mut_fault |-> <<L_print_a, L_assign6, L_div0>>,
   c_incr_check |-> <<L_print_a, L_incr, L_floordiv>>,
   c_os |-> <<L_import_os, L_os_system>>,
   c_empty |-> <<L_blank>>,
   c_none |-> <<L_assign_none, L_x>>,
   c_twice |-> <<L_assign5, L_x, L_assign6, L_x>>,
   c_trailing |-> <<L_assign5, L_x, L_comment, L_blank>>,
   c_llm |-> <<L_llm_query, L_assign5>>]

Codes == DOMAIN Source

\* the text of a code string
CodeText(c) == Join([i \in 1..Len(Source[c]) |-> Source[c][i].text])

\* `not code`: Python's truthiness of a str
IsEmptyStr(c) == CodeText(c) = <<>>

\* ------------------------------------------------ repl_env.py: the console
Vars == {"x", "os", "llm_query", "FINAL_VAR"}

IntV(n) == [t |-> "int", v |-> n]
UndefV == [t |-> "undef", v |-> 0]
NoneV == [t |-> "none", v |-> 0]
ModuleV == [t |-> "module", v |-> 0]
FunctionV == [t |-> "function", v |-> 0]

\* what self._sub_lm_callback is: None, or a callable that returns quietly,
\* that prints before it returns, or that prints and then raises
NoCallback == 0
QuietCallback == 1
PrintingCallback == 2
FaultingCallback == 3
Callbacks == {NoCallback, QuietCallback, PrintingCallback, FaultingCallback}

\* the llm_query closure of an environment whose callback is `callback`
LlmQuery(callback) == [t |-> "function", v |-> callback]

\* what a printing callback prints, and the message of a faulting one
CallbackText == "sub-lm text"
CallbackFault == "sub-lm failed"

\* repr(value) / str(value) of the values the sandbox holds
Repr(val) ==
  CASE val.t = "int" -> ToString(val.v)
    [] val.t = "module" -> "<module 'os'>"
    [] val.t = "function" -> "<function>"
    [] OTHER -> "None"

NoFault == "no_fault"

\* Python's a // b on ints, b # 0
FloorDiv(a, b) == IF b > 0 THEN a \div b ELSE (-a) \div (-b)

dangerous_patterns ==
  <<
    [pattern |-> <<"i", "m", "p", "o", "r", "t", " ", "o", "s">>,
     message |-> "os module import blocked"],
    [pattern |-> <<"i", "m", "p", "o", "r", "t", " ", "s", "u", "b", "p", "r", "o", "c", "e", "s", "s">>,
     message |-> "subprocess module import blocked"],
    [pattern |-> <<"i", "m", "p", "o", "r", "t", " ", "s", "y", "s">>,
     message |-> "sys module import blocked for security"],
    [pattern |-> <<"_", "_", "i", "m", "p", "o", "r", "t", "_", "_", "(", "'", "o", "s", "'", ")">>,
     message |-> "dynamic os import blocked"],
    [pattern |-> <<"_", "_", "i", "m", "p", "o", "r", "t", "_", "_", "(", "'", "s", "u", "b", "p", "r", "o", "c", "e", "s", "s", "'", ")">>,
     message |-> "dynamic subprocess import blocked"],
    [pattern |-> <<"e", "v", "a", "l", "(">>,
     message |-> "eval() is blocked"],
    [pattern |-> <<"e", "x", "e", "c", "(">>,
     message |-> "exec() is blocked"],
    [pattern |-> <<"c", "o", "m", "p", "i", "l", "e", "(">>,
     message |-> "compile() is blocked"],
    [pattern |-> <<"o", "p", "e", "n", "(", "'", "/">>,
     message |-> "absolute path file access restricted"],
    [pattern |-> <<"o", "s", ".", "s", "y", "s", "t", "e", "m">>,
     message |-> "os.system() is blocked"],
    [pattern |-> <<"s", "u", "b", "p", "r", "o", "c", "e", "s", "s", ".">>,
     message |-> "subprocess operations blocked"]
  >>

\* `for pattern, message in dangerous_patterns: if pattern in code_str:
\* return False, message`, from entry i on; falling out of the loop gives the
\* final `return True, ...`
RECURSIVE ScanPatterns(_, _)
ScanPatterns(code_str, i) ==
  IF i > Len(dangerous_patterns)
    THEN [is_safe |-> TRUE, message |-> "Code passed security checks"]
  ELSE IF Contains(code_str, dangerous_patterns[i].pattern)
    THEN [is_safe |-> FALSE, message |-> dangerous_patterns[i].message]
  ELSE ScanPatterns(code_str, i + 1)

\* the loop taken from the end of the list
RECURSIVE ScanPatternsBackwards(_, _)
ScanPatternsBackwards(code_str, i) ==
  IF i < 1
    THEN [is_safe |-> TRUE, message |-> "Code passed security checks"]
  ELSE IF Contains(code_str, dangerous_patterns[i].pattern)
    THEN [is_safe |-> FALSE, message |-> dangerous_patterns[i].message]
  ELSE ScanPatternsBackwards(code_str, i - 1)

\* check_code_security without the early return of level NONE
check_code_security_scan_all(level, code_str) == ScanPatterns(code_str, 1)

\* check_code_security reporting the last matching entry
check_code_security_last(level, code_str) ==
  IF level = NONE
    THEN [is_safe |-> TRUE, message |-> "Security checks disabled"]
  ELSE ScanPatternsBackwards(code_str, Len(dangerous_patterns))

\* check_code_security(code_str) of a console whose level is `level`
check_code_security(level, code_str) ==
  IF level = NONE
    THEN [is_safe |-> TRUE, message |-> "Security checks disabled"]
  ELSE IF level \in {BASIC, STRICT}
    THEN ScanPatterns(code_str, 1)
  ELSE [is_safe |-> TRUE, message |-> "Code passed security checks"]

statement_starters ==
  {
    <<"i", "m", "p", "o", "r", "t", " ">>,
    <<"f", "r", "o", "m", " ">>,
    <<"d", "e", "f", " ">>,
    <<"c", "l", "a", "s", "s", " ">>,
    <<"i", "f", " ">>,
    <<"f", "o", "r", " ">>,
    <<"w", "h", "i", "l", "e", " ">>,
    <<"t", "r", "y", ":">>,
    <<"w", "i", "t", "h", " ">>,
    <<"r", "e", "t", "u", "r", "n", " ">>,
    <<"y", "i", "e", "l", "d", " ">>,
    <<"b", "r", "e", "a", "k">>,
    <<"c", "o", "n", "t", "i", "n", "u", "e">>,
    <<"p", "a", "s", "s">>,
    <<"r", "a", "i", "s", "e", " ">>,
    <<"a", "s", "s", "e", "r", "t", " ">>,
    <<"d", "e", "l", " ">>,
    <<"g", "l", "o", "b", "a", "l", " ">>,
    <<"n", "o", "n", "l", "o", "c", "a", "l", " ">>
  }

\* _is_expression(line); eq_idx is Python's 0-based line.find('=')
is_expression(line) ==
  LET eq_idx == Find(line, "=")
  IN IF \E p \in statement_starters : StartsWith(line, p) THEN FALSE
     ELSE IF Contains(SplitFirst(line, "#"), <<"=">>)
       THEN IF eq_idx > 0 /\ line[eq_idx] \in {"!", "<", ">", "="} THEN TRUE
            ELSE IF eq_idx > 0 /\ eq_idx < Len(line) - 1 /\ line[eq_idx + 2] = "="
              THEN TRUE
            ELSE FALSE
     ELSE IF EndsWith(line, <<":">>) THEN FALSE
     ELSE IF StartsWith(line, <<"p", "r", "i", "n", "t", "(">>) THEN FALSE
     ELSE TRUE

NameErrorMsg(v) ==
  CASE v = "x" -> "name 'x' is not defined"
    [] v = "os" -> "name 'os' is not defined"
    [] OTHER -> "name is not defined"

\* the state of one run: the namespace, what was printed, the pending fault
Run(locals, out, fault) == [locals |-> locals, out |-> out, fault |-> fault]

\* one line executed as a statement by exec()
ExecLine(r, line) ==
  IF r.fault # NoFault THEN r
  ELSE CASE line.k = "print" -> Run(r.locals, Append(r.out, line.t), NoFault)
         [] line.k = "assign" ->
              Run([r.locals EXCEPT ![line.v] = IntV(line.val)], r.out, NoFault)
         [] line.k = "assign_none" ->
              Run([r.locals EXCEPT ![line.v] = NoneV], r.out, NoFault)
         [] line.k = "import" ->
              Run([r.locals EXCEPT ![line.v] = ModuleV], r.out, NoFault)
         [] line.k = "raise" -> Run(r.locals, r.out, line.t)
         [] line.k = "div0" -> Run(r.locals, r.out, "division by zero")
         [] line.k \in {"name", "syscall"} ->
              IF r.locals[line.v] = UndefV
                THEN Run(r.locals, r.out, NameErrorMsg(line.v))
                ELSE r
         [] line.k = "incr" ->
              IF r.locals[line.v] = UndefV
                THEN Run(r.locals, r.out, NameErrorMsg(line.v))
                ELSE Run([r.locals EXCEPT ![line.v] = IntV(r.locals[line.v].v + 1)],
                         r.out, NoFault)
         [] line.k = "floordiv" ->
              IF r.locals[line.v] = UndefV
                THEN Run(r.locals, r.out, NameErrorMsg(line.v))
              ELSE IF r.locals[line.v].v = line.val
                THEN Run(r.locals, r.out, "integer division or modulo by zero")
              ELSE r
         [] line.k = "llm_call" ->
              \* llm_query(prompt): under redirect("sub") the callback runs and
              \* its print() writes to sys.stdout
              IF r.locals[line.v] = UndefV
                THEN Run(r.locals, r.out, NameErrorMsg(line.v))
              ELSE IF r.locals[line.v].v = PrintingCallback
                THEN Run(r.locals, Append(r.out, CallbackText), NoFault)
              ELSE IF r.locals[line.v].v = FaultingCallback
                THEN Run(r.locals, Append(r.out, CallbackText), CallbackFault)
              ELSE r
         [] OTHER -> r

\* exec('\n'.join(lines), self.locals, self.locals)
RECURSIVE Exec(_, _)
Exec(r, lines) ==
  IF lines = <<>> THEN r ELSE Exec(ExecLine(r, Head(lines)), Tail(lines))

\* eval(last_line, ...) followed by `if result is not None: print(repr(result))`
EvalAndPrint(r, line) ==
  IF r.fault # NoFault THEN r
  ELSE CASE line.k = "name" ->
              IF r.locals[line.v] = UndefV
                THEN Run(r.locals, r.out, NameErrorMsg(line.v))
              ELSE IF r.locals[line.v] = NoneV THEN r
              ELSE Run(r.locals, Append(r.out, Repr(r.locals[line.v])), NoFault)
         [] line.k = "syscall" ->
              IF r.locals[line.v] = UndefV
                THEN Run(r.locals, r.out, NameErrorMsg(line.v))
                ELSE Run(r.locals, Append(r.out, Repr(IntV(0))), NoFault)
         [] line.k = "div0" -> Run(r.locals, r.out, "division by zero")
         [] line.k = "floordiv" ->
              IF r.locals[line.v] = UndefV
                THEN Run(r.locals, r.out, NameErrorMsg(line.v))
              ELSE IF r.locals[line.v].v = line.val
                THEN Run(r.locals, r.out, "integer division or modulo by zero")
              ELSE Run(r.locals,
                       Append(r.out, Repr(IntV(FloorDiv(line.val, r.locals[line.v].v - line.val)))),
                       NoFault)
         [] OTHER -> Run(r.locals, r.out, "invalid syntax")

IsImportLine(line) ==
  LET stripped == Strip(line.text)
  IN /\ \/ StartsWith(stripped, <<"i", "m", "p", "o", "r", "t", " ">>)
        \/ StartsWith(stripped, <<"f", "r", "o", "m", " ">>)
     /\ ~StartsWith(stripped, <<"#">>)

IsNonComment(line) ==
  /\ Strip(line.text) # <<>>
  /\ ~StartsWith(Strip(line.text), <<"#">>)

IsOtherLine(line) == ~IsImportLine(line)

\* the first i with other_lines[i].strip() == last_line, instead of the last
LastLineIdx_First(other_lines, non_comment_lines, last_line) ==
  IF Len(non_comment_lines) > 1
       /\ \E i \in 1..Len(other_lines) : Strip(other_lines[i].text) = last_line
    THEN (CHOOSE i \in 1..Len(other_lines) :
            /\ Strip(other_lines[i].text) = last_line
            /\ \A j \in 1..(i - 1) :
                 Strip(other_lines[j].text) # last_line) - 1
    ELSE -1

\* the index (Python's, 0-based) at which the statements before the last
\* line end: the last i with other_lines[i].strip() == last_line, -1 when
\* the loop is skipped or finds none
LastLineIdx(other_lines, non_comment_lines, last_line) ==
  IF Len(non_comment_lines) > 1
       /\ \E i \in 1..Len(other_lines) : Strip(other_lines[i].text) = last_line
    THEN (CHOOSE i \in 1..Len(other_lines) :
            /\ Strip(other_lines[i].text) = last_line
            /\ \A j \in (i + 1)..Len(other_lines) :
                 Strip(other_lines[j].text) # last_line) - 1
    ELSE -1

\* `exec(statements_code, ...)` when last_line_idx > 0
RunStatements(r, other_lines, last_line_idx) ==
  IF last_line_idx > 0 THEN Exec(r, SubSeq(other_lines, 1, last_line_idx)) ELSE r

\* `except Exception: exec(other_code, ...)`: fall back to normal execution
FallBack(r, other_lines) ==
  IF r.fault # NoFault THEN Exec(Run(r.locals, r.out, NoFault), other_lines) ELSE r

\* the branch taken when the last line is an expression
RunNotebookStyle(r, other_lines, non_comment_lines) ==
  FallBack(
    EvalAndPrint(
      RunStatements(r, other_lines,
                    LastLineIdx(other_lines, non_comment_lines,
                                Strip(non_comment_lines[Len(non_comment_lines)].text))),
      non_comment_lines[Len(non_comment_lines)]),
    other_lines)

\* `if other_lines:` ... of execute_code, entered with the run state r
RunOther(r, other_lines, non_comment_lines) ==
  IF r.fault # NoFault THEN r
  ELSE IF other_lines = <<>> \/ non_comment_lines = <<>> THEN r
  ELSE IF is_expression(Strip(non_comment_lines[Len(non_comment_lines)].text))
    THEN RunNotebookStyle(r, other_lines, non_comment_lines)
  ELSE Exec(r, other_lines)

\* `if import_lines: exec(import_code, ...)`
RunImports(r, import_lines) ==
  IF import_lines # <<>> THEN Exec(r, import_lines) ELSE r

\* the body of the `with self._capture_output()` block of execute_code:
\* the run state when the block is left (fault # NoFault: the outer except)
RunBody(locals, lines) ==
  RunOther(RunImports(Run(locals, <<>>, NoFault), SelectSeq(lines, IsImportLine)),
           SelectSeq(lines, IsOtherLine),
           SelectSeq(SelectSeq(lines, IsOtherLine), IsNonComment))

\* SecureInteractiveConsole.execute_code: the REPLResult, the namespace after
\* the call, and whether the body was handed to exec/eval at all
console_execute_code(level, locals, c) ==
  LET sec == check_code_security(level, CodeText(c))
      r == RunBody(locals, Source[c])
  IN IF ~sec.is_safe
       THEN [stdout |-> <<>>, stderr |-> <<"Security Error: ", sec.message>>,
             success |-> FALSE, locals |-> locals, executed |-> FALSE]
     ELSE IF r.fault # NoFault
       THEN [stdout |-> r.out, stderr |-> <<r.fault>>,
             success |-> FALSE, locals |-> r.locals, executed |-> TRUE]
     ELSE [stdout |-> r.out, stderr |-> <<>>,
           success |-> TRUE, locals |-> r.locals, executed |-> TRUE]

\* ---------------------------------------------------------------- state
\* ------------------------------------------- repl_env.py: OutputRouter
\* the strings given to set_target / redirect: the two the code names and
\* one it does not
Targets == {"base", "sub", "other"}

\* texts written through the router
Texts == {"a", "b"}

\* the most chunks the two buffers hold together, and the deepest nesting of
\* redirect scopes
MaxWrites == 2
MaxDepth == 2

\* the threads that share one router, and a thread that has not called
\* redirect(): pc is its place in redirect(), old_target the generator's local
RouterThreads == {"t1", "t2"}
NoScope == [pc |-> "call", target |-> "base", old_target |-> "base"]

\* OutputRouter(): both buffers empty, the target "base"; `redirects` are
\* the redirect() generators suspended at their yield, innermost last
OutputRouter_init ==
  [current_target |-> "base", base_lm_buffer |-> <<>>,
   sub_lm_buffer |-> <<>>, redirects |-> <<>>,
   threads |-> [t \in RouterThreads |-> NoScope]]

\* OutputRouter.set_target(target)
set_target(router, target) == [router EXCEPT !.current_target = target]

\* OutputRouter.write(text)
write(router, text) ==
  IF router.current_target = "base"
    THEN [router EXCEPT !.base_lm_buffer = Append(@, text)]
    ELSE [router EXCEPT !.sub_lm_buffer = Append(@, text)]

\* OutputRouter.get_buffer(target), target "None" being the default
get_buffer(router, target) ==
  LET t == IF target = "None" THEN router.current_target ELSE target
  IN IF t = "base" THEN router.base_lm_buffer ELSE router.sub_lm_buffer

\* clear_buffer replacing both buffers
clear_buffer_all(router, target) ==
  [router EXCEPT !.base_lm_buffer = <<>>, !.sub_lm_buffer = <<>>]

\* OutputRouter.clear_buffer(target), target "None" being the default
clear_buffer(router, target) ==
  LET t == IF target = "None" THEN router.current_target ELSE target
  IN IF t = "base"
       THEN [router EXCEPT !.base_lm_buffer = <<>>]
       ELSE [router EXCEPT !.sub_lm_buffer = <<>>]

\* redirect(target) up to its yield: old_target is the generator's local,
\* entered_from records the target the router had when the scope was entered
redirect_enter(router, target) ==
  [set_target(router, target) EXCEPT
     !.redirects = Append(router.redirects,
                          [old_target |-> router.current_target,
                           target |-> target,
                           entered_from |-> router.current_target])]

\* the innermost redirect scope ends and nothing is restored
redirect_exit_keep(router) ==
  [router EXCEPT !.redirects = SubSeq(@, 1, Len(@) - 1)]

\* the `finally` of the innermost redirect(): set_target(old_target); it runs
\* whether the body of the `with` returned or raised
redirect_exit(router) ==
  [set_target(router, router.redirects[Len(router.redirects)].old_target)
     EXCEPT !.redirects = SubSeq(@, 1, Len(@) - 1)]

\* ------------------------------------------- rlm_minimal_adk/agent.py
FSM_IDLE == "idle"
FSM_SECURITY_REVIEW == "security_review"
FSM_APPROVED == "approved"
FsmStates == {FSM_IDLE, FSM_SECURITY_REVIEW, FSM_APPROVED}

\* the locals of a new code.InteractiveInterpreter: nothing bound
EmptyLocals == [v \in Vars |-> UndefV]

\* the agents that call the tools (tool_context.agent_name)
BASE_AGENT_NAME == "rlm_base_agent"
SUB_AGENT_NAME == "rlm_sub_agent"
RlmAgents == {BASE_AGENT_NAME, SUB_AGENT_NAME}

\* an agent without an entry in stdout_target_by_agent / stdout_by_agent
NoTarget == "no_target"
NoStdout == <<"no_stdout">>

\* the entry of _INTERPRETERS and _LOCALS_BY_SESSION of a session that has
\* none, and of one whose interpreter has run x = 5
NoInterpreter == [interpreter |-> FALSE, locals |-> EmptyLocals]
PeerInterpreters ==
  {NoInterpreter,
   [interpreter |-> TRUE, locals |-> [EmptyLocals EXCEPT !["x"] = IntV(5)]]}

\* the session of the three-state REPL after _ensure_repl_state has filled in
\* its defaults: state["rlm_repl_state"], the entry of _INTERPRETERS and
\* _LOCALS_BY_SESSION for the session, and (approved_code) the pending code
\* as it was when approve_code_execution last succeeded; peer is the entry
\* of _INTERPRETERS and _LOCALS_BY_SESSION of another session id
ensure_repl_state ==
  [fsm_state |-> FSM_IDLE, pending_code |-> "c_empty", submission_count |-> 0,
   save_code_as_artifact |-> FALSE,
   stdout_by_agent |-> [a \in RlmAgents |-> NoStdout],
   stdout_target_by_agent |-> [a \in RlmAgents |-> NoTarget],
   interpreter |-> FALSE, locals |-> EmptyLocals,
   approved_code |-> NoCode,
   peer |-> NoInterpreter]

\* ------------------------------------------- repl_env.py: _capture_output
\* the objects sys.stdout / sys.stderr can be bound to: the two streams the
\* process started with and the StringIO buffers of a console's execution
OriginalStdout == [stream |-> "stdout", of |-> "process"]
OriginalStderr == [stream |-> "stderr", of |-> "process"]
StdoutBuffer(session_id) == [stream |-> "stdout", of |-> session_id]
StderrBuffer(session_id) == [stream |-> "stderr", of |-> session_id]

\* a thread that has not yet called execute_code on its console
ThreadInit ==
  [pc |-> "call", old_stdout |-> OriginalStdout, old_stderr |-> OriginalStderr,
   stdout_buffer |-> <<>>, printed |-> 0, stdout_content |-> <<>>]

\* the process before any execution: sys.stdout and sys.stderr are the
\* original streams, nothing written to the original stdout, and one thread
\* per session's console
CaptureInit ==
  [sys_stdout |-> OriginalStdout, sys_stderr |-> OriginalStderr,
   terminal |-> <<>>,
   thread |-> [session_id \in {"s1", "s2"} |-> ThreadInit]]

\* ------------------------------ discovery_agent/repl_executor_agent.py
\* BLOCKED_PATTERNS, in list order
BLOCKED_PATTERNS ==
  <<
    <<"o", "s", ".", "s", "y", "s", "t", "e", "m", "(">>,
    <<"s", "u", "b", "p", "r", "o", "c", "e", "s", "s", ".">>,
    <<"s", "h", "u", "t", "i", "l", ".", "r", "m", "t", "r", "e", "e", "(">>,
    <<"_", "_", "i", "m", "p", "o", "r", "t", "_", "_", "(", "'", "o", "s", "'", ")">>,
    <<"_", "_", "i", "m", "p", "o", "r", "t", "_", "_", "(", "'", "s", "u", "b", "p", "r", "o", "c", "e", "s", "s", "'", ")">>,
    <<"e", "v", "a", "l", "(">>,
    <<"e", "x", "e", "c", "(">>,
    <<"c", "o", "m", "p", "i", "l", "e", "(">>,
    <<"o", "p", "e", "n", "(", "'", "/", "e", "t", "c">>,
    <<"o", "p", "e", "n", "(", "'", "/", "p", "r", "o", "c">>,
    <<"o", "p", "e", "n", "(", "'", "/", "s", "y", "s">>,
    <<"i", "m", "p", "o", "r", "t", "l", "i", "b", ".", "i", "m", "p", "o", "r", "t", "_", "m", "o", "d", "u", "l", "e">>,
    <<"c", "t", "y", "p", "e", "s", ".">>,
    <<"s", "o", "c", "k", "e", "t", ".">>
  >>

\* _security_check(code): the first blocked pattern the code contains, as its
\* index in BLOCKED_PATTERNS; 0 stands for None
RECURSIVE FirstBlocked(_, _)
FirstBlocked(code, i) ==
  IF i > Len(BLOCKED_PATTERNS) THEN 0
  ELSE IF Contains(code, BLOCKED_PATTERNS[i]) THEN i
  ELSE FirstBlocked(code, i + 1)

security_check(code) == FirstBlocked(code, 1)

\* f"Security violation: code contains blocked pattern '{pattern}'"
Violation(i) == <<"Security violation", BLOCKED_PATTERNS[i]>>

\* The submissions: each a sequence of lines, a line being its text and what
\* exec does when it reaches it.
ExecutorSource ==
  [e_none    |-> <<>>,
   e_blank   |-> <<[text |-> <<" ", " ">>, k |-> "blank"]>>,
   e_assign  |-> <<[text |-> <<"x", " ", "=", " ", "5">>, k |-> "assign"]>>,
   e_len     |-> <<[text |-> <<"p", "r", "i", "n", "t", "(", "l", "e", "n", "(", "'", "a", "b", "'", ")", ")">>, k |-> "print_len"]>>,
   e_patch   |-> <<[text |-> <<"_", "_", "b", "u", "i", "l", "t", "i", "n", "s", "_", "_", "[", "'", "l", "e", "n", "'", "]", " ", "=", " ", "N", "o", "n", "e">>, k |-> "patch_len"]>>,
   e_blocked |-> <<[text |-> <<"x", " ", "=", " ", "5">>, k |-> "assign"],
                   [text |-> <<"e", "v", "a", "l", "(", "'", "1", "'", ")">>, k |-> "eval"]>>,
   e_exit    |-> <<[text |-> <<"i", "m", "p", "o", "r", "t", " ", "s", "y", "s">>, k |-> "import_sys"],
                   [text |-> <<"s", "y", "s", ".", "e", "x", "i", "t", "(", "0", ")">>, k |-> "sys_exit"]>>]

ExecutorCodes == DOMAIN ExecutorSource

ExecutorText(c) == Join([i \in 1..Len(ExecutorSource[c]) |-> ExecutorSource[c][i].text])


\* ctx.session.id of the sessions that use the one REPLExecutorAgent
ExecutorSessions == {"s1", "s2"}

\* a namespace of _namespaces: whether the session has one, the user names
\* x and sys, and the name injected for a downloaded file
NoNamespace == [present |-> FALSE, x |-> UndefV, sys |-> FALSE, gh_file |-> FALSE]

\* _SAFE_BUILTINS: one dict object, stored under "__builtins__" in every
\* namespace; the entry len is the function or what code stored over it
SAFE_BUILTINS == [len |-> "function", eval |-> "None"]

\* ctx.session.state of a new session
ExecutorState ==
  [repl_code_submission |-> "e_none", repl_stdout |-> <<>>, repl_stderr |-> <<>>,
   repl_status |-> "unset", gh_file |-> FALSE]

ExecutorInit ==
  [state |-> [s \in ExecutorSessions |-> ExecutorState],
   namespaces |-> [s \in ExecutorSessions |-> NoNamespace],
   safe_builtins |-> SAFE_BUILTINS,
   executed |-> [s \in ExecutorSessions |-> FALSE],
   executed_again |-> [s \in ExecutorSessions |-> FALSE]]

\* exec(code, namespace, namespace) from line i on: the namespace, the
\* builtins dict, the text printed and the exception that ended it
RECURSIVE ExecFrom(_, _, _, _, _)
ExecFrom(lines, i, namespace, builtins, out) ==
  IF i > Len(lines)
    THEN [namespace |-> namespace, builtins |-> builtins, stdout |-> out, raised |-> "none"]
  ELSE
    LET k == lines[i].k
        stop(e) == [namespace |-> namespace, builtins |-> builtins, stdout |-> out, raised |-> e]
    IN  CASE k = "assign" ->
               ExecFrom(lines, i + 1, [namespace EXCEPT !.x = IntV(5)], builtins, out)
          [] k = "print_len" ->
               IF builtins.len = "function"
                 THEN ExecFrom(lines, i + 1, namespace, builtins, Append(out, "2"))
                 ELSE stop("TypeError")
          [] k = "patch_len" ->
               ExecFrom(lines, i + 1, namespace, [builtins EXCEPT !.len = "None"], out)
          [] k = "eval" ->
               IF builtins.eval = "None" THEN stop("TypeError")
               ELSE ExecFrom(lines, i + 1, namespace, builtins, out)
          [] k = "import_sys" ->
               ExecFrom(lines, i + 1, [namespace EXCEPT !.sys = TRUE], builtins, out)
          [] k = "sys_exit" ->
               IF namespace.sys THEN stop("SystemExit") ELSE stop("NameError")
          [] OTHER -> ExecFrom(lines, i + 1, namespace, builtins, out)

\* `except Exception` catches it
IsException(raised) == raised \in {"NameError", "TypeError"}

\* REPLExecutorAgent._run_async_impl for the session, with the state_delta of
\* the event it yields applied to the session state
run_async_impl(e, session_id) ==
  LET state == e.state[session_id]
      code == ExecutorText(state.repl_code_submission)
      violation == security_check(code)
      created == IF e.namespaces[session_id].present
                   THEN e.namespaces[session_id]
                   ELSE [NoNamespace EXCEPT !.present = TRUE]
      injected == [created EXCEPT !.gh_file = @ \/ state.gh_file]
      r == ExecFrom(ExecutorSource[state.repl_code_submission], 1, injected,
                    e.safe_builtins, <<>>)
      ran == [e EXCEPT !.namespaces[session_id] = r.namespace,
                       !.safe_builtins = r.builtins,
                       !.executed[session_id] = TRUE,
                       !.executed_again[session_id] = @ \/ e.executed[session_id]]
  IN  IF Strip(code) = <<>>
        THEN [executor |-> e, event |-> "noop"]
      ELSE IF violation # 0
        THEN [executor |-> [e EXCEPT !.state[session_id].repl_stdout = <<>>,
                                     !.state[session_id].repl_stderr = Violation(violation),
                                     !.state[session_id].repl_status = "blocked"],
              event |-> "blocked"]
      ELSE IF r.raised = "none" \/ IsException(r.raised)
        THEN [executor |-> [ran EXCEPT
                !.state[session_id].repl_stdout = r.stdout,
                !.state[session_id].repl_stderr =
                  IF r.raised = "none" THEN <<>> ELSE <<"Traceback", r.raised>>,
                !.state[session_id].repl_status =
                  IF r.raised = "none" THEN "success" ELSE "error",
                !.state[session_id].repl_code_submission = "e_none"],
              event |-> IF r.raised = "none" THEN "success" ELSE "error"]
      ELSE [executor |-> ran, event |-> r.raised]

VARIABLES
  repl_state,           \* state["repl_state"]
  repl_pending_code,    \* state["temp:repl_pending_code"], NoCode: key absent
  repl_iteration,       \* state["repl_iteration"]
  repl_code_history,    \* state["repl_code_history"]
  repl_security_level,  \* state["repl_security_level"]
  repl_final_answer,    \* state["repl_final_answer"], NoAnswer: key absent
  repl_environments,    \* _repl_environments[session_id] of tools.py
  repl_environments_peer, \* _repl_environments[id] of a second session
  output_router,        \* an OutputRouter and its open redirect scopes
  rlm_session,          \* a session of rlm_minimal_adk/agent.py
  capture,              \* sys.stdout/sys.stderr and the threads inside execute_code
  executor,             \* the REPLExecutorAgent: states, _namespaces, builtins
  last,                 \* the most recent call and what it returned
  previous              \* the call before it

vars ==
  <<repl_state, repl_pending_code, repl_iteration, repl_code_history,
    repl_security_level, repl_final_answer, repl_environments,
    repl_environments_peer, output_router, rlm_session, capture, executor,
    last, previous>>

\* inputs of the tools
Answers == {"ans1", "ans2"}
Reasons == {"unsafe"}
VariableNames == {"x", "os", "llm_query", "nope"}

\* the namespace of a new console: safe globals plus the special functions
InitialLocals ==
  [v \in Vars |-> IF v \in {"llm_query", "FINAL_VAR"} THEN FunctionV ELSE UndefV]

AbsentEnv == [present |-> FALSE, security_level |-> NONE, locals |-> InitialLocals]

\* _get_or_create_repl creating an environment on every call
get_or_create_repl_fresh(entry, security_level) ==
  [present |-> TRUE, security_level |-> security_level, locals |-> InitialLocals]

\* _get_or_create_repl(session_id, state), `entry` being the registry's entry
\* for session_id and `security_level` the level held by `state`
get_or_create_repl_in(entry, security_level) ==
  IF ~entry.present
    THEN [present |-> TRUE, security_level |-> security_level,
          locals |-> InitialLocals]
    ELSE entry

\* _get_or_create_repl(session_id, state) for the session of the tools
get_or_create_repl ==
  get_or_create_repl_in(repl_environments, repl_security_level)

\* _safe_locals_snapshot: the names it keeps, and str() of the kept value
SnapshotKeys(locals) == {v \in Vars : locals[v] # UndefV}

SnapshotStr(val) ==
  CASE val.t = "int" -> ToString(val.v)
    [] val.t = "module" -> "<module>"
    [] val.t = "function" -> "<function>"
    [] OTHER -> "None"

\* one write of state["repl_state"] by transition_to
Tr(from, to, validate) == [from |-> from, to |-> to, validate |-> validate]

NoResult == [stdout |-> <<>>, stderr |-> <<>>, success |-> FALSE]

\* what a tool call leaves behind: the state keys, the registry entry, and
\* the record of the call (status in Raised: that exception escaped the tool)
Out(state, pending, iteration, history, final, env, op, arg, status, path, ran, executed, result) ==
  [state |-> state, pending |-> pending, iteration |-> iteration,
   history |-> history, final |-> final, env |-> env,
   last |-> [op |-> op, arg |-> arg, status |-> status, path |-> path,
             ran |-> ran, executed |-> executed,
             stdout |-> result.stdout, stderr |-> result.stderr,
             success |-> result.success]]

\* the record of a session in which no call has been made yet
NoCall ==
  [op |-> "initialize_state", arg |-> "", status |-> "", path |-> <<>>,
   ran |-> NoCode, executed |-> FALSE,
   stdout |-> <<>>, stderr |-> <<>>, success |-> FALSE]

\* what `previous` keeps of a call
Brief(call) == [op |-> call.op, arg |-> call.arg, status |-> call.status]

Init ==
  /\ repl_state = IDLE
  /\ repl_pending_code = NoCode
  /\ repl_iteration = 0
  /\ repl_code_history = <<>>
  /\ repl_security_level \in SecurityLevel
  /\ repl_final_answer = NoAnswer
  /\ repl_environments = AbsentEnv
  /\ repl_environments_peer = AbsentEnv
  /\ output_router = OutputRouter_init
  /\ rlm_session = ensure_repl_state
  /\ capture = CaptureInit
  /\ executor = ExecutorInit
  /\ last = NoCall
  /\ previous = Brief(NoCall)

\* ------------------------------------------------------- tools.py: tools
\* `if security_level in (SecurityLevel.NONE, SecurityLevel.BASIC)`
AutoApprove(security_level) == security_level \in {NONE, BASIC}

\* execute_code(code, tool_context)
execute_code(code) ==
  LET s0 == repl_state
      t1 == transition_to(s0, CODE_PENDING_REVIEW, TRUE)
      s1 == IF s0 = IDLE THEN t1.state ELSE s0
      path1 == IF s0 = IDLE THEN <<Tr(s0, s1, TRUE)>> ELSE <<>>
      t2 == transition_to(s1, CODE_APPROVED, TRUE)
      path2 == Append(path1, Tr(s1, t2.state, TRUE))
      t3 == transition_to(t2.state, EXECUTING, TRUE)
      path3 == Append(path2, Tr(t2.state, t3.state, TRUE))
      repl == get_or_create_repl
      result == console_execute_code(repl.security_level, repl.locals, code)
      env == [repl EXCEPT !.locals = result.locals]
      history == Append(repl_code_history,
                        [code |-> code, stdout |-> result.stdout,
                         stderr |-> result.stderr, iteration |-> repl_iteration])
      t4 == transition_to(t3.state, IDLE, TRUE)
      path4 == Append(path3, Tr(t3.state, t4.state, TRUE))
  IN IF s0 = IDLE /\ t1.raised # NoError
       THEN Out(s0, repl_pending_code, repl_iteration, repl_code_history,
                repl_final_answer, repl_environments,
                "execute_code", code, t1.raised, <<>>, NoCode, FALSE, NoResult)
     ELSE IF ~AutoApprove(repl_security_level)
       THEN Out(s1, code, repl_iteration, repl_code_history,
                repl_final_answer, repl_environments,
                "execute_code", code, "pending_approval", path1, NoCode, FALSE, NoResult)
     ELSE IF t2.raised # NoError
       THEN Out(s1, code, repl_iteration, repl_code_history,
                repl_final_answer, repl_environments,
                "execute_code", code, t2.raised, path1, NoCode, FALSE, NoResult)
     ELSE IF IsEmptyStr(code)
       THEN Out(t2.state, code, repl_iteration, repl_code_history,
                repl_final_answer, repl_environments,
                "execute_code", code, "error", path2, NoCode, FALSE, NoResult)
     ELSE IF t3.raised # NoError
       THEN Out(t2.state, code, repl_iteration, repl_code_history,
                repl_final_answer, repl_environments,
                "execute_code", code, t3.raised, path2, NoCode, FALSE, NoResult)
     ELSE IF t4.raised # NoError
       THEN Out(t3.state, NoCode, repl_iteration, history,
                repl_final_answer, env,
                "execute_code", code, t4.raised, path3, code, result.executed, result)
     ELSE Out(t4.state, NoCode, repl_iteration + 1, history,
              repl_final_answer, env,
              "execute_code", code, IF result.success THEN "success" ELSE "error",
              path4, code, result.executed, result)

\* approve_code_execution(tool_context)
approve_code_execution ==
  LET t1 == transition_to(repl_state, CODE_APPROVED, TRUE)
      same(status, state, path) ==
        Out(state, repl_pending_code, repl_iteration, repl_code_history,
            repl_final_answer, repl_environments,
            "approve_code_execution", "", status, path, NoCode, FALSE, NoResult)
  IN IF repl_pending_code = NoCode \/ IsEmptyStr(repl_pending_code)
       THEN same("error", repl_state, <<>>)
     ELSE IF repl_state # CODE_PENDING_REVIEW
       THEN same("error", repl_state, <<>>)
     ELSE IF t1.raised # NoError
       THEN same(t1.raised, repl_state, <<>>)
     ELSE same("approved", t1.state, <<Tr(repl_state, t1.state, TRUE)>>)

\* reject_code_execution(reason, tool_context)
reject_code_execution(reason) ==
  LET t1 == transition_to(repl_state, CODE_REJECTED, TRUE)
      t2 == transition_to(t1.state, IDLE, TRUE)
      path1 == <<Tr(repl_state, t1.state, TRUE)>>
      out(status, state, pending, path) ==
        Out(state, pending, repl_iteration, repl_code_history,
            repl_final_answer, repl_environments,
            "reject_code_execution", reason, status, path, NoCode, FALSE, NoResult)
  IN IF repl_pending_code = NoCode \/ IsEmptyStr(repl_pending_code)
       THEN out("error", repl_state, repl_pending_code, <<>>)
     ELSE IF t1.raised # NoError
       THEN out(t1.raised, repl_state, NoCode, <<>>)
     ELSE IF t2.raised # NoError
       THEN out(t2.raised, t1.state, NoCode, path1)
     ELSE out("rejected", t2.state, NoCode, Append(path1, Tr(t1.state, t2.state, TRUE)))

\* submit_final_answer going through the validated transition
submit_final_answer_validated(answer) ==
  LET t1 == transition_to(repl_state, COMPLETE, TRUE)
  IN Out(t1.state, repl_pending_code, repl_iteration, repl_code_history,
         answer, AbsentEnv,
         "submit_final_answer", answer, "complete",
         <<Tr(repl_state, t1.state, TRUE)>>, NoCode, FALSE, NoResult)

\* submit_final_answer leaving the registry as it is
submit_final_answer_no_cleanup(answer) ==
  LET t1 == transition_to(repl_state, COMPLETE, FALSE)
  IN Out(t1.state, repl_pending_code, repl_iteration, repl_code_history,
         answer, repl_environments,
         "submit_final_answer", answer, "complete",
         <<Tr(repl_state, t1.state, FALSE)>>, NoCode, FALSE, NoResult)

\* REPLStateManager.set_final_answer followed by _cleanup_repl(session_id)
submit_final_answer(answer) ==
  LET t1 == transition_to(repl_state, COMPLETE, FALSE)
  IN Out(t1.state, repl_pending_code, repl_iteration, repl_code_history,
         answer, AbsentEnv,
         "submit_final_answer", answer, "complete",
         <<Tr(repl_state, t1.state, FALSE)>>, NoCode, FALSE, NoResult)

\* submit_final_variable(variable_name, tool_context)
submit_final_variable(variable_name) ==
  LET locals_dict == repl_environments.locals
      answer == SnapshotStr(locals_dict[variable_name])
      t1 == transition_to(repl_state, COMPLETE, FALSE)
      same(status) ==
        Out(repl_state, repl_pending_code, repl_iteration, repl_code_history,
            repl_final_answer, repl_environments,
            "submit_final_variable", variable_name, status, <<>>, NoCode, FALSE, NoResult)
  IN IF ~repl_environments.present THEN same("error")
     ELSE IF variable_name \notin SnapshotKeys(locals_dict) THEN same("error")
     ELSE Out(t1.state, repl_pending_code, repl_iteration, repl_code_history,
              answer, AbsentEnv,
              "submit_final_variable", variable_name, "complete",
              <<Tr(repl_state, t1.state, FALSE)>>, NoCode, FALSE, NoResult)

\* a tool call takes the session from the current state to `o`
Apply(o) ==
  /\ repl_state' = o.state
  /\ repl_pending_code' = o.pending
  /\ repl_iteration' = o.iteration
  /\ repl_code_history' = o.history
  /\ repl_final_answer' = o.final
  /\ repl_environments' = o.env
  /\ last' = o.last
  /\ previous' = Brief(last)
  /\ UNCHANGED <<repl_security_level, repl_environments_peer,
                 output_router, rlm_session, capture, executor>>

ExecuteCode ==
  \E code \in Codes :
    /\ execute_code(code).iteration <= MaxIteration
    /\ Apply(execute_code(code))

ApproveCodeExecution == Apply(approve_code_execution)

RejectCodeExecution == \E reason \in Reasons : Apply(reject_code_execution(reason))

SubmitFinalAnswer == \E answer \in Answers : Apply(submit_final_answer(answer))

SubmitFinalVariable ==
  \E variable_name \in VariableNames : Apply(submit_final_variable(variable_name))

Next ==
  \/ ExecuteCode
  \/ ApproveCodeExecution
  \/ RejectCodeExecution
  \/ SubmitFinalAnswer
  \/ SubmitFinalVariable

Spec == Init /\ [][Next]_vars

\* ------------------------------------------- transition_to on its own
\* REPLStateManager.transition_to(state_dict, new_state, validate) called on
\* a state dictionary holding any REPLState
TransitionTo ==
  \E new_state \in REPLState, validate \in BOOLEAN :
    LET t == transition_to(repl_state, new_state, validate)
    IN /\ repl_state' = t.state
       /\ last' = [last EXCEPT !.op = "transition_to",
                               !.arg = new_state,
                               !.status = IF t.raised = NoError THEN "returned"
                                                               ELSE t.raised,
                               !.path = <<Tr(repl_state, new_state, validate)>>]
       /\ previous' = Brief(last)
       /\ UNCHANGED <<repl_pending_code, repl_iteration, repl_code_history,
                      repl_security_level, repl_final_answer, repl_environments,
                      repl_environments_peer,
                      output_router, rlm_session, capture, executor>>

InitFSM ==
  /\ repl_state \in REPLState
  /\ repl_pending_code = NoCode
  /\ repl_iteration = 0
  /\ repl_code_history = <<>>
  /\ repl_security_level \in SecurityLevel
  /\ repl_final_answer = NoAnswer
  /\ repl_environments = AbsentEnv
  /\ repl_environments_peer = AbsentEnv
  /\ output_router = OutputRouter_init
  /\ rlm_session = ensure_repl_state
  /\ capture = CaptureInit
  /\ executor = ExecutorInit
  /\ last = NoCall
  /\ previous = Brief(NoCall)

NextFSM == TransitionTo

SpecFSM == InitFSM /\ [][NextFSM]_vars

\* ------------------------------------------- the sandbox on its own
\* ADKREPLEnvironment(security_level) followed by
\* initialize(sub_lm_callback=...)
InitConsole ==
  /\ repl_state = IDLE
  /\ repl_pending_code = NoCode
  /\ repl_iteration = 0
  /\ repl_code_history = <<>>
  /\ repl_security_level \in SecurityLevel
  /\ repl_final_answer = NoAnswer
  /\ \E callback \in Callbacks :
       repl_environments =
         [present |-> TRUE,
          security_level |-> repl_security_level,
          locals |-> [InitialLocals EXCEPT !["llm_query"] = LlmQuery(callback)]]
  /\ repl_environments_peer = AbsentEnv
  /\ output_router = OutputRouter_init
  /\ rlm_session = ensure_repl_state
  /\ capture = CaptureInit
  /\ executor = ExecutorInit
  /\ last = NoCall
  /\ previous = Brief(NoCall)

\* the integers of a namespace are within the cap
WithinMaxInt(locals) ==
  \A v \in Vars : locals[v].t = "int" => locals[v].v \in (0 - MaxInt)..MaxInt

\* ADKREPLEnvironment.execute(code) on an initialized environment
execute(code) ==
  console_execute_code(repl_environments.security_level,
                       repl_environments.locals, code)

Execute ==
  \E code \in Codes :
    /\ WithinMaxInt(execute(code).locals)
    /\ repl_environments' = [repl_environments EXCEPT !.locals = execute(code).locals]
    /\ last' = [op |-> "execute", arg |-> code, status |-> "", path |-> <<>>,
                ran |-> code, executed |-> execute(code).executed,
                stdout |-> execute(code).stdout,
                stderr |-> execute(code).stderr,
                success |-> execute(code).success]
    /\ previous' = Brief(last)
    /\ UNCHANGED <<repl_state, repl_pending_code, repl_iteration,
                   repl_code_history, repl_security_level, repl_final_answer,
                   repl_environments_peer, output_router, rlm_session,
                   capture, executor>>

NextConsole == Execute

SpecConsole == InitConsole /\ [][NextConsole]_vars

\* ------------------------------------------------------------- properties
\* the allowed-transition table as the specification gives it
AllowedPairs ==
  {<<IDLE, CODE_PENDING_REVIEW>>, <<IDLE, COMPLETE>>,
   <<CODE_PENDING_REVIEW, CODE_APPROVED>>, <<CODE_PENDING_REVIEW, CODE_REJECTED>>,
   <<CODE_PENDING_REVIEW, COMPLETE>>,
   <<CODE_APPROVED, EXECUTING>>, <<CODE_APPROVED, COMPLETE>>,
   <<CODE_REJECTED, IDLE>>, <<CODE_REJECTED, COMPLETE>>,
   <<EXECUTING, IDLE>>, <<EXECUTING, COMPLETE>>}

ForceCompleteOps == {"submit_final_answer", "submit_final_variable"}

\* the writes of a call form a chain from the state before it to the state
\* after it
Chained(before, path, after) ==
  IF path = <<>> THEN after = before
  ELSE /\ path[1].from = before
       /\ path[Len(path)].to = after
       /\ \A i \in 1..(Len(path) - 1) : path[i].to = path[i + 1].from

\* the states a call wrote, in order
Written(path) == [i \in 1..Len(path) |-> path[i].to]

\* C1: through every tool call the stored EFSM state stays one of the six
\* REPLState values, and every change of it (each write a call makes, in
\* order, from the state before the call to the state after it) is a pair of
\* the allowed-transition table, except a change to COMPLETE written by the
\* force-complete operation set_final_answer.
C1_TransitionsInTable ==
  [][/\ repl_state' \in REPLState
     /\ Chained(repl_state, last'.path, repl_state')
     /\ \A i \in 1..Len(last'.path) :
          LET w == last'.path[i]
          IN w.from # w.to =>
               \/ <<w.from, w.to>> \in AllowedPairs
               \/ /\ last'.op \in ForceCompleteOps
                  /\ ~w.validate
                  /\ w.to = COMPLETE]_vars

\* the stored state has changed: a tool call took the session out of IDLE
C1_Witness ==
  /\ repl_state = COMPLETE
  /\ last.op = "submit_final_answer"
  /\ last.path[1].from = IDLE
  /\ last.path[1].to = COMPLETE

\* C2: for all 36 pairs can_transition returns a boolean without raising,
\* TRUE exactly on the pairs of the table, and transition_to with
\* validate=True writes the new state exactly for those pairs and raises,
\* leaving the state as it was, for all others.
C2_CanTransitionTable ==
  /\ \A f \in REPLState, t \in REPLState :
       /\ can_transition(f, t).raised = NoError
       /\ can_transition(f, t).value <=> <<f, t>> \in AllowedPairs
  /\ (last.op = "transition_to" /\ last.path[1].validate) =>
       IF <<last.path[1].from, last.path[1].to>> \in AllowedPairs
         THEN last.status = "returned" /\ repl_state = last.path[1].to
         ELSE last.status \in Raised /\ repl_state = last.path[1].from

\* C3: COMPLETE is terminal: a tool call made in COMPLETE either ends in an
\* error (error result or exception) or leaves the EFSM state, the final
\* answer, the pending code, the iteration count and the code history as
\* they were.
C3_CompleteIsTerminal ==
  [][repl_state = COMPLETE =>
       \/ last'.status \in {"error"} \cup Raised
       \/ UNCHANGED <<repl_state, repl_final_answer, repl_pending_code,
                      repl_iteration, repl_code_history>>]_vars

\* C4: under NONE or BASIC one execute_code call made in IDLE resolves the
\* review by itself (the call writes CODE_PENDING_REVIEW and then
\* CODE_APPROVED, and does not leave the session in CODE_PENDING_REVIEW);
\* under STRICT execute_code hands nothing to the sandbox and returns
\* pending_approval, and only approve_code_execution writes CODE_APPROVED.
C4_ReviewByLevel ==
  [][/\ (last'.op = "execute_code" /\ repl_security_level \in {NONE, BASIC}
           /\ repl_state = IDLE) =>
          /\ Len(last'.path) >= 2
          /\ last'.path[1].to = CODE_PENDING_REVIEW
          /\ last'.path[2].to = CODE_APPROVED
          /\ repl_state' # CODE_PENDING_REVIEW
     /\ (last'.op = "execute_code" /\ repl_security_level = STRICT) =>
          /\ last'.ran = NoCode
          /\ last'.status = "pending_approval"
     /\ (repl_security_level = STRICT
           /\ \E i \in 1..Len(last'.path) : last'.path[i].to = CODE_APPROVED) =>
          last'.op = "approve_code_execution"]_vars

Denylisted(c) == ~check_code_security(BASIC, CodeText(c)).is_safe

\* C6: at BASIC, an execute_code call made in IDLE with code that holds a
\* denylisted signature goes IDLE -> CODE_PENDING_REVIEW -> CODE_REJECTED ->
\* IDLE, never through CODE_APPROVED or EXECUTING, hands nothing to the
\* sandbox, and its stderr records the rejection.
C6_DenylistedIsRejected ==
  [][(/\ last'.op = "execute_code"
      /\ repl_security_level = BASIC
      /\ Denylisted(last'.arg)
      /\ repl_state = IDLE) =>
       /\ Written(last'.path) = <<CODE_PENDING_REVIEW, CODE_REJECTED, IDLE>>
       /\ last'.ran = NoCode
       /\ last'.stderr # <<>>]_vars

\* C7: at NONE or BASIC an execute_code call made in IDLE is accepted (it
\* returns, whatever the code does) and leaves the session in IDLE, so that
\* the next execute_code call is accepted as well.
C7_ExecuteReturnsToIdle ==
  [][(repl_security_level \in {NONE, BASIC} /\ repl_state = IDLE
        /\ last'.op = "execute_code") =>
       /\ last'.status \notin Raised
       /\ repl_state' = IDLE]_vars

\* C8: while the EFSM state is IDLE, CODE_REJECTED or COMPLETE the pending
\* code is empty: the key is absent or holds the empty string.
C8_NoPendingOutsideWindow ==
  repl_state \in {IDLE, CODE_REJECTED, COMPLETE} =>
    \/ repl_pending_code = NoCode
    \/ IsEmptyStr(repl_pending_code)

\* what the submitted code does when Python runs it once, line by line, up
\* to its first fault
RunOnce(locals, c) == Exec(Run(locals, <<>>, NoFault), Source[c])

\* every element of `part` occurs in `whole`
HoldsAll(whole, part) ==
  \A i \in 1..Len(part) : \E j \in 1..Len(whole) : whole[j] = part[i]

\* C10: when the code handed to the sandbox raises a runtime fault after
\* producing output, the result has success = false, its stdout holds what
\* was printed before the fault, its stderr holds the fault's message, and
\* the session's namespace, kept for the next execution, holds the bindings
\* made before the fault.
C10_PartialFailure ==
  [][(/\ last'.executed
      /\ RunOnce(get_or_create_repl.locals, last'.arg).fault # NoFault
      /\ RunOnce(get_or_create_repl.locals, last'.arg).out # <<>>) =>
       /\ ~last'.success
       /\ HoldsAll(last'.stdout, RunOnce(get_or_create_repl.locals, last'.arg).out)
       /\ HoldsAll(last'.stderr, <<RunOnce(get_or_create_repl.locals, last'.arg).fault>>)
       /\ repl_environments'.present
       /\ repl_environments'.locals =
            RunOnce(get_or_create_repl.locals, last'.arg).locals]_vars

\* the position of the last non-comment, non-blank line of a body
LastNonComment(body) ==
  CHOOSE k \in 1..Len(body) :
    /\ IsNonComment(body[k])
    /\ \A j \in (k + 1)..Len(body) : ~IsNonComment(body[j])

\* the value Python gives the expression `line` in the namespace `locals`,
\* or the fault its evaluation raises
ExprValue(locals, line) ==
  CASE line.k \in {"name", "syscall", "floordiv"} /\ locals[line.v] = UndefV ->
         [fault |-> NameErrorMsg(line.v), val |-> NoneV]
    [] line.k = "name" /\ locals[line.v] # UndefV ->
         [fault |-> NoFault, val |-> locals[line.v]]
    [] line.k = "syscall" /\ locals[line.v] # UndefV ->
         [fault |-> NoFault, val |-> IntV(0)]
    [] line.k = "floordiv" /\ locals[line.v] # UndefV /\ locals[line.v].v = line.val ->
         [fault |-> "integer division or modulo by zero", val |-> NoneV]
    [] line.k = "floordiv" /\ locals[line.v] # UndefV /\ locals[line.v].v # line.val ->
         [fault |-> NoFault, val |-> IntV(FloorDiv(line.val, locals[line.v].v - line.val))]
    [] line.k = "div0" -> [fault |-> "division by zero", val |-> NoneV]
    [] OTHER -> [fault |-> "invalid syntax", val |-> NoneV]

\* what the auto-print adds to stdout for a value
AutoPrinted(val) == IF val = NoneV THEN <<>> ELSE <<Repr(val)>>

\* the body of a code string after its import lines were taken out and run
ImportsDone(locals, c) ==
  Exec(Run(locals, <<>>, NoFault), SelectSeq(Source[c], IsImportLine))

Body(c) == SelectSeq(Source[c], IsOtherLine)

\* the lines before the last non-comment, non-blank line, run as statements
PriorDone(locals, c) ==
  Exec(ImportsDone(locals, c), SubSeq(Body(c), 1, LastNonComment(Body(c)) - 1))

LastExpr(c) == Body(c)[LastNonComment(Body(c))]

\* C11: auto-print. When the last non-comment, non-blank line of the body is
\* a bare expression and the lines before it and the expression run without
\* a fault, the result's stdout is what those lines printed followed by the
\* representation of the expression's value, once, when the value is not
\* None (and by nothing when it is None), and the namespace is the one those
\* lines left; when the last line is not a bare expression the result is
\* that of running the whole body as statements, with nothing added.
C11_AutoPrint ==
  [][(/\ last'.op = "execute"
      /\ last'.executed
      /\ ImportsDone(repl_environments.locals, last'.arg).fault = NoFault
      /\ \E i \in 1..Len(Body(last'.arg)) : IsNonComment(Body(last'.arg)[i])) =>
       IF is_expression(Strip(LastExpr(last'.arg).text))
         THEN (/\ PriorDone(repl_environments.locals, last'.arg).fault = NoFault
               /\ ExprValue(PriorDone(repl_environments.locals, last'.arg).locals,
                            LastExpr(last'.arg)).fault = NoFault) =>
                /\ last'.success
                /\ last'.stdout =
                     PriorDone(repl_environments.locals, last'.arg).out
                       \o AutoPrinted(ExprValue(PriorDone(repl_environments.locals,
                                                          last'.arg).locals,
                                                LastExpr(last'.arg)).val)
                /\ repl_environments'.locals =
                     PriorDone(repl_environments.locals, last'.arg).locals
         ELSE /\ last'.stdout =
                   Exec(ImportsDone(repl_environments.locals, last'.arg),
                        Body(last'.arg)).out
              /\ repl_environments'.locals =
                   Exec(ImportsDone(repl_environments.locals, last'.arg),
                        Body(last'.arg)).locals]_vars

\* the expression `x` closes a body in which the same line occurs earlier:
\* the value bound last was printed, once
C11_Witness ==
  /\ last.op = "execute"
  /\ last.arg = "c_twice"
  /\ last.success
  /\ last.stdout = <<"6">>

\* ------------------------------------------- the session registry on its own
\* _repl_environments, _get_or_create_repl and _cleanup_repl of tools.py used
\* by two sessions: each session's code is run by
\* _get_or_create_repl(session_id, state).execute(code)
SessionIds == {"s1", "s2"}

\* the key under which the registry holds a session's environment
RegistryKey(session_id) == session_id

\* _repl_environments[session_id]
RegistryEntry(session_id) ==
  IF RegistryKey(session_id) = "s1" THEN repl_environments
                                    ELSE repl_environments_peer

\* _repl_environments after `_repl_environments[session_id] = entry`
RegistryStore(session_id, entry) ==
  /\ repl_environments' =
       IF RegistryKey(session_id) = "s1" THEN entry ELSE repl_environments
  /\ repl_environments_peer' =
       IF RegistryKey(session_id) = "s1" THEN repl_environments_peer ELSE entry

\* the code strings the two sessions run
RegistryCodes == {"c_assign", "c_expr", "c_none", "c_os"}

InitRegistry ==
  /\ repl_state = IDLE
  /\ repl_pending_code = NoCode
  /\ repl_iteration = 0
  /\ repl_code_history = <<>>
  /\ repl_security_level \in SecurityLevel
  /\ repl_final_answer = NoAnswer
  /\ repl_environments = AbsentEnv
  /\ repl_environments_peer = AbsentEnv
  /\ output_router = OutputRouter_init
  /\ rlm_session = ensure_repl_state
  /\ capture = CaptureInit
  /\ executor = ExecutorInit
  /\ last = NoCall
  /\ previous = Brief(NoCall)

\* repl = _get_or_create_repl(session_id, state); repl.execute(code)
\* (tools.py:167-170), the state of the first session being the one of the
\* tools and the state of the second holding any level
GetOrCreateAndExecute ==
  \E session_id \in SessionIds, level \in SecurityLevel, code \in RegistryCodes :
    LET repl == get_or_create_repl_in(
                  RegistryEntry(session_id),
                  IF session_id = "s1" THEN repl_security_level ELSE level)
        result == console_execute_code(repl.security_level, repl.locals, code)
    IN /\ WithinMaxInt(result.locals)
       /\ RegistryStore(session_id, [repl EXCEPT !.locals = result.locals])
       /\ last' = [op |-> "_get_or_create_repl", session |-> session_id,
                   arg |-> code, status |-> "", path |-> <<>>,
                   ran |-> code, executed |-> result.executed,
                   stdout |-> result.stdout, stderr |-> result.stderr,
                   success |-> result.success]
       /\ previous' = Brief(last)
       /\ UNCHANGED <<repl_state, repl_pending_code, repl_iteration,
                      repl_code_history, repl_security_level, repl_final_answer,
                      output_router, rlm_session, capture, executor>>

\* _cleanup_repl(session_id)
CleanupRepl ==
  \E session_id \in SessionIds :
    /\ IF RegistryEntry(session_id).present
         THEN RegistryStore(session_id, AbsentEnv)
         ELSE UNCHANGED <<repl_environments, repl_environments_peer>>
    /\ last' = [op |-> "_cleanup_repl", session |-> session_id,
                arg |-> "", status |-> "", path |-> <<>>,
                ran |-> NoCode, executed |-> FALSE,
                stdout |-> <<>>, stderr |-> <<>>, success |-> FALSE]
    /\ previous' = Brief(last)
    /\ UNCHANGED <<repl_state, repl_pending_code, repl_iteration,
                   repl_code_history, repl_security_level, repl_final_answer,
                      output_router, rlm_session, capture, executor>>

NextRegistry ==
  \/ GetOrCreateAndExecute
  \/ CleanupRepl

SpecRegistry == InitRegistry /\ [][NextRegistry]_vars

\* C12: namespace persistence and isolation through the session registry.
\* For a session whose environment is registered, _get_or_create_repl gives
\* that same environment (still registered, its level the one it was
\* created with) and the code sees the namespace the session's previous
\* execution left: `x` prints the value bound earlier and binds nothing;
\* a session without an environment has no `x`. Running code in a session,
\* or cleaning it up, leaves the environment registered for the other
\* session id exactly as it was, and _cleanup_repl removes the session's own.
C12_NamespacePerSession ==
  [][\A sid \in SessionIds, other \in SessionIds :
       (sid = last'.session /\ other # sid) =>
         /\ RegistryEntry(other)' = RegistryEntry(other)
         /\ last'.op = "_cleanup_repl" => ~RegistryEntry(sid)'.present
         /\ last'.op = "_get_or_create_repl" =>
              /\ RegistryEntry(sid)'.present
              /\ RegistryEntry(sid).present =>
                   RegistryEntry(sid)'.security_level = RegistryEntry(sid).security_level
              /\ last'.arg = "c_expr" =>
                   IF RegistryEntry(sid).present
                        /\ RegistryEntry(sid).locals["x"] # UndefV
                     THEN /\ last'.success
                          /\ last'.stdout = AutoPrinted(RegistryEntry(sid).locals["x"])
                          /\ RegistryEntry(sid)'.locals = RegistryEntry(sid).locals
                     ELSE /\ ~last'.success
                          /\ last'.stderr = <<NameErrorMsg("x")>>]_vars

\* the first session printed the 5 it bound in an earlier execution while
\* the second session, whose environment exists, has no x
C12_Witness ==
  /\ last.op = "_get_or_create_repl"
  /\ last.session = "s1"
  /\ last.arg = "c_expr"
  /\ last.stdout = <<"5">>
  /\ repl_environments_peer.present
  /\ repl_environments_peer.locals["x"] = UndefV


\* ------------------------------------------- the output router on its own
\* OutputRouter() used by one thread
InitRouter ==
  /\ repl_state = IDLE
  /\ repl_pending_code = NoCode
  /\ repl_iteration = 0
  /\ repl_code_history = <<>>
  /\ repl_security_level = BASIC
  /\ repl_final_answer = NoAnswer
  /\ repl_environments = AbsentEnv
  /\ repl_environments_peer = AbsentEnv
  /\ output_router = OutputRouter_init
  /\ rlm_session = ensure_repl_state
  /\ capture = CaptureInit
  /\ executor = ExecutorInit
  /\ last = NoCall
  /\ previous = Brief(NoCall)

\* the record of a call on the router
RouterCall(op, arg, status) ==
  [op |-> op, arg |-> arg, status |-> status, path |-> <<>>,
   ran |-> NoCode, executed |-> FALSE,
   stdout |-> <<>>, stderr |-> <<>>, success |-> FALSE]

RouterStep(router, op, arg, status) ==
  /\ output_router' = router
  /\ last' = RouterCall(op, arg, status)
  /\ UNCHANGED <<repl_state, repl_pending_code, repl_iteration,
                 repl_code_history, repl_security_level, repl_final_answer,
                 repl_environments, repl_environments_peer,
                 rlm_session, capture, executor, previous>>

SetTarget ==
  \E target \in Targets :
    RouterStep(set_target(output_router, target), "set_target", target, "")

Write ==
  \E text \in Texts :
    /\ Len(output_router.base_lm_buffer)
         + Len(output_router.sub_lm_buffer) < MaxWrites
    /\ RouterStep(write(output_router, text), "write", text, "")

ClearBuffer ==
  \E target \in Targets \cup {"None"} :
    RouterStep(clear_buffer(output_router, target), "clear_buffer", target, "")

\* `with router.redirect(target):` is entered
RedirectEnter ==
  \E target \in Targets :
    /\ Len(output_router.redirects) < MaxDepth
    /\ RouterStep(redirect_enter(output_router, target),
                  "redirect_enter", target, "")

\* the body of the innermost `with` ends, by returning or by raising
RedirectExit ==
  \E status \in {"returned", "raised"} :
    /\ output_router.redirects # <<>>
    /\ RouterStep(redirect_exit(output_router), "redirect_exit",
                  output_router.redirects[Len(output_router.redirects)].target,
                  status)

NextRouter ==
  \/ SetTarget
  \/ Write
  \/ ClearBuffer
  \/ RedirectEnter
  \/ RedirectExit

SpecRouter == InitRouter /\ [][NextRouter]_vars

\* C13: scoped redirection of the output router, one thread, scopes properly
\* nested.  A write made inside a redirect scope while the current target is
\* "sub" is appended to the secondary buffer and leaves the primary buffer as
\* it was; and when a redirect scope ends, by return or by exception, the
\* current target is the one the router had just before that scope was
\* entered.
C13_ScopedRedirect ==
  [][/\ (/\ last'.op = "write"
         /\ output_router.redirects # <<>>
         /\ output_router.current_target = "sub")
        => /\ output_router'.sub_lm_buffer =
                Append(output_router.sub_lm_buffer, last'.arg)
           /\ output_router'.base_lm_buffer = output_router.base_lm_buffer
     /\ last'.op = "redirect_exit"
        => /\ output_router'.current_target =
                output_router.redirects[Len(output_router.redirects)].entered_from
           /\ Len(output_router'.redirects) = Len(output_router.redirects) - 1
    ]_vars

\* a scope nested in a "sub" scope has ended by an exception and the target
\* is "sub" again, with a text written to the secondary buffer meanwhile
C13_Witness ==
  /\ last.op = "redirect_exit"
  /\ last.status = "raised"
  /\ Len(output_router.redirects) = 1
  /\ output_router.redirects[1].target = "sub"
  /\ output_router.current_target = "sub"
  /\ output_router.sub_lm_buffer # <<>>
  /\ output_router.base_lm_buffer = <<>>


\* ------------------------------------------- the tools on a stored session
\* the code a session holds while a submission is in flight
SessionPending == {"c_assign", "c_os"}

\* tool_context.state is the stored state of the session: a tool is called on
\* a session in any REPLState, holding what the state machine's table gives
\* that state (pending code from submission until execution ends, a final
\* answer once complete), with or without a registered environment
InitSession ==
  /\ repl_state \in REPLState
  /\ repl_pending_code \in
       IF repl_state \in {CODE_PENDING_REVIEW, CODE_APPROVED, EXECUTING}
         THEN SessionPending ELSE {NoCode}
  /\ repl_iteration \in 0..1
  /\ repl_code_history = <<>>
  /\ repl_security_level \in SecurityLevel
  /\ repl_final_answer \in IF repl_state = COMPLETE THEN {"ans1"} ELSE {NoAnswer}
  /\ repl_environments \in
       IF repl_state = COMPLETE
         THEN {AbsentEnv}
         ELSE {AbsentEnv, [present |-> TRUE,
                           security_level |-> repl_security_level,
                           locals |-> InitialLocals]}
  /\ repl_environments_peer = AbsentEnv
  /\ output_router = OutputRouter_init
  /\ rlm_session = ensure_repl_state
  /\ capture = CaptureInit
  /\ executor = ExecutorInit
  /\ last = NoCall
  /\ previous = Brief(NoCall)

SpecSession == InitSession /\ [][Next]_vars

NonTerminal ==
  {IDLE, CODE_PENDING_REVIEW, CODE_APPROVED, CODE_REJECTED, EXECUTING}

\* C14: forceComplete from any non-terminal state.  submit_final_answer(answer)
\* called in IDLE, CODE_PENDING_REVIEW, CODE_APPROVED, CODE_REJECTED or
\* EXECUTING ends in COMPLETE with the final answer equal to the given one,
\* by a single unvalidated write of the state; and a write of the state made
\* without validation is made only by set_final_answer, which the two
\* submit_final tools call.
C14_ForceComplete ==
  [][/\ (last'.op = "submit_final_answer" /\ repl_state \in NonTerminal)
        => /\ repl_state' = COMPLETE
           /\ repl_final_answer' = last'.arg
           /\ last'.status = "complete"
           /\ last'.path = <<Tr(repl_state, COMPLETE, FALSE)>>
     /\ (\E i \in 1..Len(last'.path) : ~last'.path[i].validate)
        => last'.op \in ForceCompleteOps
     /\ (repl_state' # repl_state /\ last'.op \notin ForceCompleteOps)
        => /\ last'.path # <<>>
           /\ \A i \in 1..Len(last'.path) : last'.path[i].validate
    ]_vars

\* a session in EXECUTING has been completed by submit_final_answer
C14_Witness ==
  /\ last.op = "submit_final_answer"
  /\ last.path = <<Tr(EXECUTING, COMPLETE, FALSE)>>
  /\ repl_state = COMPLETE
  /\ repl_final_answer = "ans2"


\* C15: an operation called from a state the table does not permit for it
\* fails and changes nothing: execute_code when the state is not IDLE,
\* approve_code_execution or reject_code_execution when the state is not
\* CODE_PENDING_REVIEW, each end in an error (an error result or an exception)
\* and leave the state, the pending code, the iteration count and the code
\* history as they were.
C15_NotPermittedChangesNothing ==
  [][(\/ (last'.op = "execute_code" /\ repl_state # IDLE)
      \/ (/\ last'.op \in {"approve_code_execution", "reject_code_execution"}
          /\ repl_state # CODE_PENDING_REVIEW))
     => /\ last'.status \in {"error"} \cup Raised
        /\ UNCHANGED <<repl_state, repl_pending_code, repl_iteration,
                       repl_code_history>>]_vars


\* C16: every failure of a tool resolves to a returned result carrying a
\* status field: no call of a tool ends with an exception escaping to its
\* caller.
C16_NoExceptionEscapes ==
  last.op \in {"execute_code", "approve_code_execution",
               "reject_code_execution", "submit_final_answer",
               "submit_final_variable"}
    => /\ last.status \notin Raised
       /\ last.status \in {"success", "error", "pending_approval", "approved",
                           "rejected", "complete"}


C18_TeardownOnCompletion ==
  [][/\ repl_state' = COMPLETE => ~repl_environments'.present
     /\ (last'.op \in ForceCompleteOps /\ last'.status = "complete")
        => /\ repl_state' = COMPLETE
           /\ ~repl_environments'.present
     /\ (repl_state = COMPLETE /\ ~repl_environments.present)
        => ~repl_environments'.present
    ]_vars

\* a session with a registered environment has been completed by
\* submit_final_variable and a tool has been called on it afterwards
C18_Witness ==
  /\ previous.op = "submit_final_variable"
  /\ previous.status = "complete"
  /\ last.op = "execute_code"
  /\ repl_state = COMPLETE
  /\ ~repl_environments.present


\* ------------------------------------------- check_code_security on its own
\* pieces of code text: the denylisted signatures and parts of them
SecurityFragments ==
  {dangerous_patterns[i].pattern : i \in 1..Len(dangerous_patterns)}
    \cup {<<"i", "m", "p", "o", "r", "t">>, <<" ">>, <<"o", "s">>,
          <<"e", "v", "a", "l">>, <<"(">>,
          <<".", "s", "y", "s", "t", "e", "m">>}

\* the most pieces a code string is made of
MaxFragments == 3

RECURSIVE Concat(_)
Concat(parts) == IF parts = <<>> THEN <<>> ELSE parts[1] \o Concat(Tail(parts))

\* the code strings given to check_code_security
CodeStrings ==
  {Concat(parts) :
     parts \in UNION {[1..n -> SecurityFragments] : n \in 0..MaxFragments}}

\* SecureInteractiveConsole(security_level=...) and a code string to check
InitSecurity ==
  /\ repl_state = IDLE
  /\ repl_pending_code = NoCode
  /\ repl_iteration = 0
  /\ repl_code_history = <<>>
  /\ repl_security_level \in SecurityLevel
  /\ repl_final_answer = NoAnswer
  /\ repl_environments = [present |-> TRUE,
                          security_level |-> repl_security_level,
                          locals |-> InitialLocals]
  /\ repl_environments_peer = AbsentEnv
  /\ output_router = OutputRouter_init
  /\ rlm_session = ensure_repl_state
  /\ capture = CaptureInit
  /\ executor = ExecutorInit
  /\ \E code_str \in CodeStrings :
       last = [NoCall EXCEPT !.op = "SecureInteractiveConsole", !.arg = code_str]
  /\ previous = Brief(NoCall)

\* is_safe, message = console.check_code_security(code_str)
CheckCodeSecurity ==
  /\ last.op = "SecureInteractiveConsole"
  /\ LET r == check_code_security(repl_environments.security_level, last.arg)
     IN last' = [last EXCEPT !.op = "check_code_security",
                             !.status = r.message,
                             !.success = r.is_safe]
  /\ previous' = Brief(last)
  /\ UNCHANGED <<repl_state, repl_pending_code, repl_iteration,
                 repl_code_history, repl_security_level, repl_final_answer,
                 repl_environments, repl_environments_peer,
                 output_router, rlm_session, capture, executor>>

NextSecurity == CheckCodeSecurity

SpecSecurity == InitSecurity /\ [][NextSecurity]_vars

\* the entries of the denylist whose pattern occurs in the code string
Hits(code_str) ==
  {i \in 1..Len(dangerous_patterns) :
     \E k \in 1..Len(code_str) :
       /\ k + Len(dangerous_patterns[i].pattern) - 1 <= Len(code_str)
       /\ \A j \in 1..Len(dangerous_patterns[i].pattern) :
            code_str[k + j - 1] = dangerous_patterns[i].pattern[j]}

\* C19: at level NONE check_code_security allows every code string, whatever
\* it contains.
C19_NoneAllowsAll ==
  (last.op = "check_code_security" /\ repl_environments.security_level = NONE)
    => last.success

\* a code string holding denylisted signatures has been allowed at NONE
C19_Witness ==
  /\ last.op = "check_code_security"
  /\ repl_environments.security_level = NONE
  /\ Cardinality(Hits(last.arg)) >= 2
  /\ last.success

\* C20: at level BASIC or STRICT check_code_security disallows a code string
\* exactly when at least one denylist pattern is a substring of it, the
\* reason then being the message of the first entry, in denylist order, whose
\* pattern occurs; and the two levels give the same result for the string.
C20_DenylistFirstMatch ==
  (/\ last.op = "check_code_security"
   /\ repl_environments.security_level \in {BASIC, STRICT})
    => /\ ~last.success <=> Hits(last.arg) # {}
       /\ Hits(last.arg) # {} =>
            \E i \in Hits(last.arg) :
              /\ \A j \in Hits(last.arg) : i <= j
              /\ last.status = dangerous_patterns[i].message
       /\ check_code_security(BASIC, last.arg)
            = check_code_security(STRICT, last.arg)
       /\ [is_safe |-> last.success, message |-> last.status]
            = check_code_security(BASIC, last.arg)

\* a string whose text shows a later entry of the denylist before an earlier
\* one has been refused with the message of the earlier entry
C20_Witness ==
  /\ last.op = "check_code_security"
  /\ repl_environments.security_level = STRICT
  /\ last.arg = dangerous_patterns[10].pattern \o dangerous_patterns[3].pattern
  /\ ~last.success
  /\ last.status = "sys module import blocked for security"


\* ------------------------------------------- the three-state REPL
\* (rlm_minimal_adk/agent.py)
\* the code strings submitted to the three-state REPL
RlmCodes == {"c_assign", "c_print_raise", "c_empty"}

\* the most submissions counted
MaxSubmissions == 2

\* what a tool of agent.py leaves behind: the session and the record of the
\* call (status "raised": an exception escaped the tool)
RlmOut(session, op, arg, status, ran, executed, stdout) ==
  [session |-> session,
   last |-> [op |-> op, arg |-> arg, status |-> status, path |-> <<>>,
             ran |-> ran, executed |-> executed,
             stdout |-> stdout, stderr |-> <<>>, success |-> FALSE]]

\* submit_code(tool_context, code_text); save_fails: tool_context.save_artifact
\* raises
submit_code(r, code_text, save_fails) ==
  LET r1 == [r EXCEPT !.pending_code = code_text,
                      !.fsm_state = FSM_SECURITY_REVIEW,
                      !.submission_count = @ + 1]
  IN RlmOut(r1, "submit_code", code_text,
            IF r1.save_code_as_artifact /\ save_fails THEN "raised"
                                                      ELSE "submitted",
            NoCode, FALSE, <<>>)

\* approve_code_execution(tool_context) of agent.py
rlm_approve_code_execution(r) ==
  IF r.fsm_state # FSM_SECURITY_REVIEW
    THEN RlmOut(r, "approve_code_execution", "", "ignored", NoCode, FALSE, <<>>)
    ELSE RlmOut([r EXCEPT !.fsm_state = FSM_APPROVED,
                          !.approved_code = r.pending_code],
                "approve_code_execution", "", "approved", NoCode, FALSE, <<>>)

\* interpreter.runsource(pending_code, symbol="exec") under
\* contextlib.redirect_stdout: the statements run in order up to the first
\* fault, whose traceback goes to stderr
runsource(r) ==
  Exec(Run(IF r.interpreter THEN r.locals ELSE EmptyLocals, <<>>, NoFault),
       Source[r.pending_code])

\* stdout_targets.get(tool_context.agent_name, tool_context.agent_name),
\* once always the caller
stdout_target_caller(r, agent_name) == agent_name

stdout_target(r, agent_name) ==
  IF r.stdout_target_by_agent[agent_name] = NoTarget
    THEN agent_name
    ELSE r.stdout_target_by_agent[agent_name]

\* _record_stdout(repl_state, target_agent=..., stdout_text=...)
record_stdout(r, target_agent, stdout_text) ==
  [r EXCEPT !.stdout_by_agent[target_agent] = stdout_text]

\* the session after the pending code has run for the calling agent
Executed(r, agent_name) ==
  [record_stdout(r, stdout_target(r, agent_name), runsource(r).out)
     EXCEPT !.interpreter = TRUE,
            !.locals = runsource(r).locals,
            !.pending_code = "c_empty",
            !.fsm_state = FSM_IDLE]

\* execute_pending_code running whatever is pending in any state
execute_pending_code_unguarded(r, agent_name) ==
  RlmOut(Executed(r, agent_name),
         "execute_pending_code", agent_name, "executed",
         r.pending_code, TRUE, runsource(r).out)

\* execute_pending_code(tool_context)
execute_pending_code(r, agent_name) ==
  IF r.fsm_state # FSM_APPROVED
    THEN RlmOut(r, "execute_pending_code", agent_name, "blocked", NoCode, FALSE, <<>>)
  ELSE IF IsEmptyStr(r.pending_code)
    THEN RlmOut([r EXCEPT !.fsm_state = FSM_IDLE],
                "execute_pending_code", agent_name, "empty", NoCode, FALSE, <<>>)
  ELSE RlmOut(Executed(r, agent_name),
              "execute_pending_code", agent_name, "executed",
              r.pending_code, TRUE, runsource(r).out)

\* set_stdout_target(tool_context, target_agent)
set_stdout_target(r, agent_name, target_agent) ==
  RlmOut([r EXCEPT !.stdout_target_by_agent[agent_name] = target_agent],
         "set_stdout_target", agent_name, "ok", NoCode, FALSE, <<>>)

\* set_save_code_as_artifact(tool_context, enabled)
set_save_code_as_artifact(r, enabled) ==
  RlmOut([r EXCEPT !.save_code_as_artifact = enabled],
         "set_save_code_as_artifact", "", "ok", NoCode, FALSE, <<>>)

\* reset_repl with _INTERPRETERS.clear() and _LOCALS_BY_SESSION.clear()
reset_repl_all(r) ==
  RlmOut([r EXCEPT !.interpreter = FALSE, !.locals = EmptyLocals,
                   !.peer = NoInterpreter,
                   !.pending_code = "c_empty", !.fsm_state = FSM_IDLE],
         "reset_repl", "", "reset", NoCode, FALSE, <<>>)

\* reset_repl(tool_context)
reset_repl(r) ==
  RlmOut([r EXCEPT !.interpreter = FALSE, !.locals = EmptyLocals,
                   !.pending_code = "c_empty", !.fsm_state = FSM_IDLE],
         "reset_repl", "", "reset", NoCode, FALSE, <<>>)

\* a new session of the three-state REPL
InitRlm ==
  /\ repl_state = IDLE
  /\ repl_pending_code = NoCode
  /\ repl_iteration = 0
  /\ repl_code_history = <<>>
  /\ repl_security_level = BASIC
  /\ repl_final_answer = NoAnswer
  /\ repl_environments = AbsentEnv
  /\ repl_environments_peer = AbsentEnv
  /\ output_router = OutputRouter_init
  /\ \E peer \in PeerInterpreters :
       rlm_session = [ensure_repl_state EXCEPT !.peer = peer]
  /\ capture = CaptureInit
  /\ executor = ExecutorInit
  /\ last = NoCall
  /\ previous = Brief(NoCall)

RlmApply(o) ==
  /\ rlm_session' = o.session
  /\ last' = o.last
  /\ previous' = Brief(last)
  /\ UNCHANGED <<repl_state, repl_pending_code, repl_iteration,
                 repl_code_history, repl_security_level, repl_final_answer,
                 repl_environments, repl_environments_peer, output_router,
                 capture, executor>>

SubmitCode ==
  \E code_text \in RlmCodes, save_fails \in BOOLEAN :
    /\ rlm_session.submission_count < MaxSubmissions
    /\ RlmApply(submit_code(rlm_session, code_text, save_fails))

RlmApproveCodeExecution == RlmApply(rlm_approve_code_execution(rlm_session))

ExecutePendingCode ==
  \E agent_name \in RlmAgents :
    RlmApply(execute_pending_code(rlm_session, agent_name))

SetStdoutTarget ==
  \E agent_name \in RlmAgents, target_agent \in RlmAgents :
    RlmApply(set_stdout_target(rlm_session, agent_name, target_agent))

SetSaveCodeAsArtifact ==
  \E enabled \in BOOLEAN :
    RlmApply(set_save_code_as_artifact(rlm_session, enabled))

ResetRepl == RlmApply(reset_repl(rlm_session))

NextRlm ==
  \/ SubmitCode
  \/ RlmApproveCodeExecution
  \/ ExecutePendingCode
  \/ SetSaveCodeAsArtifact
  \/ SetStdoutTarget
  \/ ResetRepl

SpecRlm == InitRlm /\ [][NextRlm]_vars

\* C22: approval gate of the three-state REPL.  execute_pending_code runs
\* code only when fsm_state is approved, and what it runs is the pending code
\* as it was when approve_code_execution last succeeded; a submit_code made
\* in approved sends the state back to security_review; and called in any
\* other state execute_pending_code runs nothing, returns "blocked" and
\* leaves the session as it was.
C22_ApprovalGate ==
  [][/\ (last'.op = "execute_pending_code" /\ last'.executed)
        => /\ rlm_session.fsm_state = FSM_APPROVED
           /\ last'.ran = rlm_session.approved_code
     /\ (last'.op = "execute_pending_code"
         /\ rlm_session.fsm_state # FSM_APPROVED)
        => /\ last'.status = "blocked"
           /\ ~last'.executed
           /\ rlm_session' = rlm_session
     /\ (last'.op = "submit_code" /\ rlm_session.fsm_state = FSM_APPROVED)
        => rlm_session'.fsm_state = FSM_SECURITY_REVIEW
    ]_vars

\* code approved after a first approval was overtaken by a new submission has
\* been run
C22_Witness ==
  /\ last.op = "execute_pending_code"
  /\ last.executed
  /\ last.ran = "c_print_raise"
  /\ last.stdout # <<>>
  /\ rlm_session.submission_count = 2
  /\ rlm_session.fsm_state = FSM_IDLE

\* C23: submit_code is valid only from idle.  From idle it stores the code as
\* pending, moves to security_review and adds exactly 1 to submission_count;
\* called in security_review or approved it is refused and leaves the pending
\* code, fsm_state and submission_count as they were.
C23_SubmitOnlyFromIdle ==
  [][last'.op = "submit_code" =>
       IF rlm_session.fsm_state = FSM_IDLE
         THEN /\ rlm_session'.pending_code = last'.arg
              /\ rlm_session'.fsm_state = FSM_SECURITY_REVIEW
              /\ rlm_session'.submission_count
                   = rlm_session.submission_count + 1
         ELSE /\ last'.status # "submitted"
              /\ rlm_session'.pending_code = rlm_session.pending_code
              /\ rlm_session'.fsm_state = rlm_session.fsm_state
              /\ rlm_session'.submission_count = rlm_session.submission_count
    ]_vars


\* ------------------------------------------- two consoles, two threads
\* the number of print statements in the code each thread executes
PrintsPerCode == 1

\* the text the code of a session prints
OwnText(session_id) == IF session_id = "s1" THEN "a" ELSE "b"

\* a write of `text` to the object `stream`
WriteTo(c, stream, text) ==
  IF stream = OriginalStdout
    THEN [c EXCEPT !.terminal = Append(@, text)]
  ELSE IF stream.stream = "stdout" /\ stream.of \in SessionIds
    THEN [c EXCEPT !.thread[stream.of].stdout_buffer = Append(@, text)]
  ELSE c

\* one statement of a thread; the calls in flight leave `last` as it is
ThreadStep(c) ==
  /\ capture' = c
  /\ UNCHANGED <<repl_state, repl_pending_code, repl_iteration,
                 repl_code_history, repl_security_level, repl_final_answer,
                 repl_environments, repl_environments_peer, output_router,
                 rlm_session, executor, last, previous>>

\* `with self._lock:` of the thread's own console, which no other thread uses
AcquireLock ==
  \E s \in SessionIds :
    /\ capture.thread[s].pc = "call"
    /\ ThreadStep([capture EXCEPT !.thread[s].pc = "locked"])

\* old_stdout = sys.stdout
SaveStdout ==
  \E s \in SessionIds :
    /\ capture.thread[s].pc = "locked"
    /\ ThreadStep([capture EXCEPT !.thread[s].old_stdout = capture.sys_stdout,
                                  !.thread[s].pc = "saved_stdout"])

\* old_stderr = sys.stderr
SaveStderr ==
  \E s \in SessionIds :
    /\ capture.thread[s].pc = "saved_stdout"
    /\ ThreadStep([capture EXCEPT !.thread[s].old_stderr = capture.sys_stderr,
                                  !.thread[s].pc = "saved_stderr"])

\* sys.stdout = stdout_buffer
SetStdout ==
  \E s \in SessionIds :
    /\ capture.thread[s].pc = "saved_stderr"
    /\ ThreadStep([capture EXCEPT !.sys_stdout = StdoutBuffer(s),
                                  !.thread[s].pc = "set_stdout"])

\* sys.stderr = stderr_buffer; the body of the `with` starts
SetStderr ==
  \E s \in SessionIds :
    /\ capture.thread[s].pc = "set_stdout"
    /\ ThreadStep([capture EXCEPT !.sys_stderr = StderrBuffer(s),
                                  !.thread[s].pc = "running"])

\* a print(...) of the executed code: a write to whatever sys.stdout is now
PrintLine ==
  \E s \in SessionIds :
    /\ capture.thread[s].pc = "running"
    /\ capture.thread[s].printed < PrintsPerCode
    /\ ThreadStep([WriteTo(capture, capture.sys_stdout, OwnText(s))
                     EXCEPT !.thread[s].printed = @ + 1])

\* stdout_content = stdout_buffer.getvalue(), the code having run to its end
GetValue ==
  \E s \in SessionIds :
    /\ capture.thread[s].pc = "running"
    /\ capture.thread[s].printed = PrintsPerCode
    /\ ThreadStep([capture EXCEPT
                     !.thread[s].stdout_content = capture.thread[s].stdout_buffer,
                     !.thread[s].pc = "collected"])

\* finally: sys.stdout = old_stdout
RestoreStdout ==
  \E s \in SessionIds :
    /\ capture.thread[s].pc = "collected"
    /\ ThreadStep([capture EXCEPT !.sys_stdout = capture.thread[s].old_stdout,
                                  !.thread[s].pc = "restored_stdout"])

\* sys.stderr = old_stderr; the lock is released and the result returned
RestoreStderr ==
  \E s \in SessionIds :
    /\ capture.thread[s].pc = "restored_stdout"
    /\ ThreadStep([capture EXCEPT !.sys_stderr = capture.thread[s].old_stderr,
                                  !.thread[s].pc = "returned"])

InitCapture ==
  /\ repl_state = IDLE
  /\ repl_pending_code = NoCode
  /\ repl_iteration = 0
  /\ repl_code_history = <<>>
  /\ repl_security_level = BASIC
  /\ repl_final_answer = NoAnswer
  /\ repl_environments = AbsentEnv
  /\ repl_environments_peer = AbsentEnv
  /\ output_router = OutputRouter_init
  /\ rlm_session = ensure_repl_state
  /\ capture = CaptureInit
  /\ executor = ExecutorInit
  /\ last = NoCall
  /\ previous = Brief(NoCall)

NextCapture ==
  \/ AcquireLock
  \/ SaveStdout
  \/ SaveStderr
  \/ SetStdout
  \/ SetStderr
  \/ PrintLine
  \/ GetValue
  \/ RestoreStdout
  \/ RestoreStderr

SpecCapture == InitCapture /\ [][NextCapture]_vars

\* C24: distinct sessions execute in parallel.  When the executions of two
\* sessions on two threads have both returned, the stdout of each result is
\* exactly the text its own code printed, and sys.stdout and sys.stderr are
\* the objects they were before either execution started.
C24_ParallelSessions ==
  (\A s \in SessionIds : capture.thread[s].pc = "returned")
    => /\ \A s \in SessionIds :
            capture.thread[s].stdout_content
              = [i \in 1..PrintsPerCode |-> OwnText(s)]
       /\ capture.sys_stdout = OriginalStdout
       /\ capture.sys_stderr = OriginalStderr


\* C25: text printed by the secondary-model callback while it runs inside
\* llm_query never appears in the stdout of the result that execute returns
\* to the primary caller, also when the callback faults.
C25_CallbackOutputNotInResult ==
  last.op = "execute" =>
    \A i \in 1..Len(last.stdout) : last.stdout[i] # CallbackText


\* ------------------------------------------- the tools with re-initialisation
\* REPLStateManager.initialize_state(state_dict, security_level=...) called on
\* the state dictionary of a session, as initialize_rlm_session does: it
\* writes the state, the iteration count, the history and the level, and no
\* other key
InitializeState ==
  \E security_level \in SecurityLevel :
    /\ repl_state' = IDLE
    /\ repl_iteration' = 0
    /\ repl_code_history' = <<>>
    /\ repl_security_level' = security_level
    /\ last' = NoCall
    /\ previous' = Brief(last)
    /\ UNCHANGED <<repl_pending_code, repl_final_answer, repl_environments,
                   repl_environments_peer, output_router, rlm_session,
                   capture, executor>>

NextReinit ==
  \/ ExecuteCode
  \/ ApproveCodeExecution
  \/ RejectCodeExecution
  \/ SubmitFinalAnswer
  \/ SubmitFinalVariable
  \/ InitializeState

SpecReinit == Init /\ [][NextReinit]_vars

\* C26: the final answer is present in the session state only while the
\* state is COMPLETE, also after the session state has been re-initialised
\* with initialize_state.
C26_FinalAnswerOnlyWhenComplete ==
  repl_final_answer # NoAnswer => repl_state = COMPLETE


\* how many lines of a code string are of kind k on variable v with text t
LinesOf(c, k, v, t) ==
  Cardinality({i \in 1..Len(Source[c]) :
                 /\ Source[c][i].k = k
                 /\ Source[c][i].v = v
                 /\ Source[c][i].t = t})

\* how many elements of a sequence equal e
Occurrences(seq, e) == Cardinality({i \in 1..Len(seq) : seq[i] = e})

\* C28: within one execute call every statement of the submitted body is
\* executed at most once, also when the trailing expression or a statement
\* before it raises: a text is printed at most as many times as the body has
\* print statements for it, and x is incremented at most as many times as the
\* body has increments of it.
C28_AtMostOnce ==
  [][(last'.op = "execute" /\ last'.executed) =>
       /\ Occurrences(last'.stdout, "a") <= LinesOf(last'.arg, "print", "", "a")
       /\ (/\ repl_environments.locals["x"].t = "int"
           /\ LinesOf(last'.arg, "assign", "x", "") = 0
           /\ LinesOf(last'.arg, "assign_none", "x", "") = 0)
          => /\ repl_environments'.locals["x"].t = "int"
             /\ repl_environments'.locals["x"].v
                  <= repl_environments.locals["x"].v
                       + LinesOf(last'.arg, "incr", "x", "")]_vars


\* ------------------------------------------- _is_expression on its own
\* pieces of a line of code
ExpressionFragments ==
  {<<"x">>, <<"=">>, <<"=", "=">>, <<"!", "=">>, <<"<", "=">>, <<">", "=">>,
   <<":">>, <<"#">>, <<"p", "r", "i", "n", "t", "(">>, <<")">>,
   <<"i", "f", " ">>}

\* the most pieces a line is made of
MaxTokens == 4

\* the lines given to _is_expression
ExpressionLines ==
  {Concat(parts) :
     parts \in UNION {[1..n -> ExpressionFragments] : n \in 0..MaxTokens}}

\* a console and the stripped last line of a body
InitExpression ==
  /\ repl_state = IDLE
  /\ repl_pending_code = NoCode
  /\ repl_iteration = 0
  /\ repl_code_history = <<>>
  /\ repl_security_level = BASIC
  /\ repl_final_answer = NoAnswer
  /\ repl_environments = [present |-> TRUE,
                          security_level |-> repl_security_level,
                          locals |-> InitialLocals]
  /\ repl_environments_peer = AbsentEnv
  /\ output_router = OutputRouter_init
  /\ rlm_session = ensure_repl_state
  /\ capture = CaptureInit
  /\ executor = ExecutorInit
  /\ \E line \in ExpressionLines :
       last = [NoCall EXCEPT !.op = "last_line", !.arg = line]
  /\ previous = Brief(NoCall)

\* is_expression = self._is_expression(last_line)
IsExpression ==
  /\ last.op = "last_line"
  /\ last' = [last EXCEPT !.op = "_is_expression",
                          !.success = is_expression(last.arg)]
  /\ previous' = Brief(last)
  /\ UNCHANGED <<repl_state, repl_pending_code, repl_iteration,
                 repl_code_history, repl_security_level, repl_final_answer,
                 repl_environments, repl_environments_peer, output_router,
                 rlm_session, capture, executor>>

NextExpression == IsExpression

SpecExpression == InitExpression /\ [][NextExpression]_vars

\* the position of the first "=" of a line, 0 when it has none
FirstEq(line) ==
  IF \E i \in 1..Len(line) : line[i] = "="
    THEN CHOOSE i \in 1..Len(line) :
           line[i] = "=" /\ \A j \in 1..(i - 1) : line[j] # "="
    ELSE 0

\* the first "=" of the line is part of ==, !=, <= or >=
FirstEqIsComparison(line) ==
  /\ FirstEq(line) > 0
  /\ \/ FirstEq(line) > 1 /\ line[FirstEq(line) - 1] \in {"!", "<", ">"}
     \/ FirstEq(line) < Len(line) /\ line[FirstEq(line) + 1] = "="

\* the line has an "=" outside a trailing comment that is not part of a
\* comparison operator
PlainAssignment(line) ==
  /\ FirstEq(line) > 0
  /\ \A j \in 1..(FirstEq(line) - 1) : line[j] # "#"
  /\ ~FirstEqIsComparison(line)

\* C29: _is_expression gives False for a line that starts with a statement
\* keyword, ends in a colon, starts with print( or is a plain assignment (a
\* line whose first "=" belongs to ==, !=, <= or >= not being an assignment),
\* and True for every other line.
C29_IsExpression ==
  last.op = "_is_expression" =>
    (last.success <=>
       ~(\/ \E p \in statement_starters :
              /\ Len(p) <= Len(last.arg)
              /\ \A i \in 1..Len(p) : last.arg[i] = p[i]
         \/ Len(last.arg) > 0 /\ last.arg[Len(last.arg)] = ":"
         \/ /\ Len(last.arg) >= 6
            /\ SubSeq(last.arg, 1, 6) = <<"p", "r", "i", "n", "t", "(">>
         \/ PlainAssignment(last.arg)))


\* The line print(x==x) classified as an expression by the code.
C29_PrintComparison ==
  /\ last.op = "_is_expression"
  /\ last.arg = <<"p", "r", "i", "n", "t", "(", "x", "=", "=", "x">>
  /\ last.success


InitExecutor ==
  /\ repl_state = IDLE
  /\ repl_pending_code = NoCode
  /\ repl_iteration = 0
  /\ repl_code_history = <<>>
  /\ repl_security_level = BASIC
  /\ repl_final_answer = NoAnswer
  /\ repl_environments = AbsentEnv
  /\ repl_environments_peer = AbsentEnv
  /\ output_router = OutputRouter_init
  /\ rlm_session = ensure_repl_state
  /\ capture = CaptureInit
  /\ \E files \in [ExecutorSessions -> BOOLEAN] :
       executor = [ExecutorInit EXCEPT
                     !.state = [s \in ExecutorSessions |->
                                  [ExecutorState EXCEPT !.gh_file = files[s]]]]
  /\ last = NoCall
  /\ previous = Brief(NoCall)

ExecutorStep(e, op, session_id, event) ==
  /\ executor' = e
  /\ last' = [NoCall EXCEPT !.op = op, !.arg = session_id, !.status = event]
  /\ UNCHANGED <<repl_state, repl_pending_code, repl_iteration,
                 repl_code_history, repl_security_level, repl_final_answer,
                 repl_environments, repl_environments_peer, output_router,
                 rlm_session, capture, previous>>

\* state['repl_code_submission'] = code, written for the agent to read
SubmitToExecutor ==
  \E session_id \in ExecutorSessions, code \in ExecutorCodes \ {"e_none"} :
    ExecutorStep([executor EXCEPT
                    !.state[session_id].repl_code_submission = code,
                    !.executed[session_id] = FALSE,
                    !.executed_again[session_id] = FALSE],
                 "submit", session_id, "")

\* one run of the agent for a session
RunAsyncImpl ==
  \E session_id \in ExecutorSessions :
    /\ LET r == run_async_impl(executor, session_id)
       IN  ExecutorStep(r.executor, "_run_async_impl", session_id, r.event)

NextExecutor ==
  \/ SubmitToExecutor
  \/ RunAsyncImpl

SpecExecutor == InitExecutor /\ [][NextExecutor]_vars

\* what the name len resolves to in the session's namespace: the namespace
\* binds no len, so the lookup falls through to its "__builtins__" entry
ResolveLen(session_id) == executor.safe_builtins.len

(***************************************************************************)
(* C32: sessions of the executor are independent: a run for one session    *)
(* id never changes what a name, built-in names included, resolves to in   *)
(* the namespace of another session id.                                    *)
(***************************************************************************)
C32_SessionIndependence ==
  [][\A s \in ExecutorSessions :
       (last'.op = "_run_async_impl" /\ last'.arg # s)
         => /\ executor'.namespaces[s] = executor.namespaces[s]
            /\ ResolveLen(s)' = ResolveLen(s)]_vars


ExecutorTypeOK ==
  \A s \in ExecutorSessions :
    executor.state[s].repl_status \in {"unset", "success", "error", "blocked"}


\* the submission the session's state holds, as text
Submission(s) == ExecutorText(executor.state[s].repl_code_submission)

HasBlockedPattern(code) ==
  \E i \in 1..Len(BLOCKED_PATTERNS) : Contains(code, BLOCKED_PATTERNS[i])

(***************************************************************************)
(* C33: the security gate of the executor.  A run on a submission that     *)
(* contains a blocked pattern executes nothing: it ends with repl_status   *)
(* 'blocked', empty repl_stdout, the violation text in repl_stderr and the *)
(* namespaces as they were.  After every run on a submission that is not   *)
(* blank, repl_status is one of 'success', 'error', 'blocked'.             *)
(***************************************************************************)
C33_SecurityGate ==
  [][\A s \in ExecutorSessions :
       (last'.op = "_run_async_impl" /\ last'.arg = s)
         => /\ HasBlockedPattern(Submission(s))
                 => /\ executor'.state[s].repl_status = "blocked"
                    /\ executor'.state[s].repl_stdout = <<>>
                    /\ \E i \in 1..Len(BLOCKED_PATTERNS) :
                         executor'.state[s].repl_stderr = Violation(i)
                    /\ executor'.namespaces = executor.namespaces
                    /\ executor'.safe_builtins = executor.safe_builtins
                    /\ executor'.executed = executor.executed
            /\ Strip(Submission(s)) # <<>>
                 => executor'.state[s].repl_status \in {"success", "error", "blocked"}]_vars

\* the first half of C33 alone: blocked submissions are never executed
BlockedNeverExecuted ==
  [][\A s \in ExecutorSessions :
       (last'.op = "_run_async_impl" /\ last'.arg = s
        /\ HasBlockedPattern(Submission(s)))
         => /\ executor'.state[s].repl_status = "blocked"
            /\ executor'.state[s].repl_stdout = <<>>
            /\ executor'.namespaces = executor.namespaces
            /\ executor'.safe_builtins = executor.safe_builtins
            /\ executor'.executed = executor.executed]_vars

(***************************************************************************)
(* C34: the executor runs each submission at most once.  A run that        *)
(* executed the submission (status success or error) clears                *)
(* repl_code_submission, and a run on a session without a submission       *)
(* executes nothing, emits the no-op event and changes no state key.       *)
(***************************************************************************)
C34_AtMostOnce ==
  [][\A s \in ExecutorSessions :
       /\ ~executor'.executed_again[s]
       /\ (last'.op = "_run_async_impl" /\ last'.arg = s)
            => /\ last'.status \in {"success", "error"}
                    => executor'.state[s].repl_code_submission = "e_none"
               /\ executor.state[s].repl_code_submission = "e_none"
                    => /\ last'.status = "noop"
                       /\ executor' = executor]_vars

\* the second half of C34 alone: what a run with status success or error
\* leaves, and what a run without a submission does
ClearedAfterExecution ==
  [][\A s \in ExecutorSessions :
       (last'.op = "_run_async_impl" /\ last'.arg = s)
         => /\ last'.status \in {"success", "error"}
                 => executor'.state[s].repl_code_submission = "e_none"
            /\ executor.state[s].repl_code_submission = "e_none"
                 => /\ last'.status = "noop"
                    /\ executor' = executor]_vars


(***************************************************************************)
(* C35: reset_repl destroys the session's namespace.  After it fsm_state   *)
(* is idle and the pending code is empty whatever the state was, the       *)
(* session has no interpreter and no locals left, so the next code runs    *)
(* with nothing bound; the namespace of another session is untouched and   *)
(* submission_count is unchanged.  Over every step submission_count never  *)
(* decreases.                                                              *)
(***************************************************************************)
C35_ResetRepl ==
  [][/\ last'.op = "reset_repl"
          => /\ rlm_session'.fsm_state = FSM_IDLE
             /\ rlm_session'.pending_code = "c_empty"
             /\ ~rlm_session'.interpreter
             /\ rlm_session'.locals = EmptyLocals
             /\ runsource([rlm_session' EXCEPT !.pending_code = "c_expr"]).fault
                  # NoFault
             /\ rlm_session'.peer = rlm_session.peer
             /\ rlm_session'.submission_count = rlm_session.submission_count
     /\ rlm_session'.submission_count >= rlm_session.submission_count]_vars

\* reset_repl called in approved, with code pending, two submissions counted,
\* x bound by an earlier execution and another session holding an interpreter
C35_Witness ==
  /\ last.op = "reset_repl"
  /\ previous.op = "approve_code_execution"
  /\ previous.status = "approved"
  /\ rlm_session.submission_count = 2
  /\ rlm_session.peer.interpreter
  /\ rlm_session.stdout_by_agent[BASE_AGENT_NAME] = <<>>


(***************************************************************************)
(* C37: per-agent stdout routing.  The stdout of an execute_pending_code   *)
(* call is recorded under the target the calling agent last set with       *)
(* set_stdout_target, or under the calling agent when it set none; what is *)
(* recorded for every other target stays as it was; set_stdout_target by   *)
(* one agent leaves every other agent's target as it was.                  *)
(***************************************************************************)
C37_StdoutRouting ==
  [][\A agent_name \in RlmAgents :
       /\ (last'.op = "execute_pending_code" /\ last'.arg = agent_name
           /\ last'.executed)
            => LET set == rlm_session.stdout_target_by_agent[agent_name]
                   target == IF set = NoTarget THEN agent_name ELSE set
               IN  /\ rlm_session'.stdout_by_agent[target] = last'.stdout
                   /\ \A other \in RlmAgents \ {target} :
                        rlm_session'.stdout_by_agent[other]
                          = rlm_session.stdout_by_agent[other]
       /\ (last'.op = "set_stdout_target" /\ last'.arg = agent_name)
            => \A other \in RlmAgents \ {agent_name} :
                 rlm_session'.stdout_target_by_agent[other]
                   = rlm_session.stdout_target_by_agent[other]]_vars

\* the sub agent has routed its stdout to the base agent and run code that
\* prints: the text is recorded for the base agent, nothing for the sub agent
C37_Witness ==
  /\ last.op = "execute_pending_code"
  /\ last.arg = SUB_AGENT_NAME
  /\ last.executed
  /\ last.stdout # <<>>
  /\ rlm_session.stdout_target_by_agent[SUB_AGENT_NAME] = BASE_AGENT_NAME
  /\ rlm_session.stdout_by_agent[BASE_AGENT_NAME] = last.stdout
  /\ rlm_session.stdout_by_agent[SUB_AGENT_NAME] = NoStdout


\* the targets that have a buffer of their own
BufferTargets == {"base", "sub"}

\* the target a clear_buffer call names, "None" standing for the current one
Named(target) == IF target = "None" THEN output_router.current_target ELSE target

(***************************************************************************)
(* C36: the buffers of the output router accumulate.  A write appends its  *)
(* text to the buffer of the current target and leaves the other buffer as *)
(* it was, so a buffer holds, in order, the texts written while its target *)
(* was current since it was last cleared; only clear_buffer empties a      *)
(* buffer; clear_buffer(t) leaves the other target's buffer and the        *)
(* current target as they were.  Targets are "base" and "sub".             *)
(***************************************************************************)
C36_BuffersAccumulate ==
  [][/\ (last'.op = "write" /\ output_router.current_target \in BufferTargets)
          => \A t \in BufferTargets :
               get_buffer(output_router', t) =
                 IF t = output_router.current_target
                   THEN Append(get_buffer(output_router, t), last'.arg)
                   ELSE get_buffer(output_router, t)
     /\ (last'.op = "clear_buffer" /\ Named(last'.arg) \in BufferTargets)
          => /\ \A t \in BufferTargets :
                  get_buffer(output_router', t) =
                    IF t = Named(last'.arg) THEN <<>>
                                            ELSE get_buffer(output_router, t)
             /\ output_router'.current_target = output_router.current_target
     /\ last'.op \notin {"write", "clear_buffer"}
          => \A t \in BufferTargets :
               get_buffer(output_router', t) = get_buffer(output_router, t)]_vars

\* "a" then "b" were written to the primary buffer, the target moved to "sub"
\* and the secondary buffer was cleared: the primary one still holds both
C36_Witness ==
  /\ last.op = "clear_buffer"
  /\ last.arg = "None"
  /\ output_router.current_target = "sub"
  /\ output_router.base_lm_buffer = <<"a", "b">>
  /\ output_router.sub_lm_buffer = <<>>


(***************************************************************************)
(* SpecRouterThreads: two threads share one OutputRouter and each runs one *)
(* `with router.redirect(target):`.  redirect() reads _current_target      *)
(* without the lock, then calls set_target, and calls set_target again in  *)
(* its finally clause; the threads' steps interleave freely.               *)
(***************************************************************************)
InitRouterThreads ==
  /\ repl_state = IDLE
  /\ repl_pending_code = NoCode
  /\ repl_iteration = 0
  /\ repl_code_history = <<>>
  /\ repl_security_level = BASIC
  /\ repl_final_answer = NoAnswer
  /\ repl_environments = AbsentEnv
  /\ repl_environments_peer = AbsentEnv
  /\ \E before \in Targets, targets \in [RouterThreads -> Targets] :
       /\ output_router =
            [OutputRouter_init EXCEPT
               !.current_target = before,
               !.threads = [t \in RouterThreads |->
                              [NoScope EXCEPT !.target = targets[t]]]]
       /\ last = [NoCall EXCEPT !.op = "set_target", !.arg = before]
  /\ rlm_session = ensure_repl_state
  /\ capture = CaptureInit
  /\ executor = ExecutorInit
  /\ previous = Brief(NoCall)

RouterThreadStep(router) ==
  /\ output_router' = router
  /\ UNCHANGED <<repl_state, repl_pending_code, repl_iteration,
                 repl_code_history, repl_security_level, repl_final_answer,
                 repl_environments, repl_environments_peer,
                 rlm_session, capture, executor, last, previous>>

\* old_target = self._current_target
ReadOldTarget ==
  \E t \in RouterThreads :
    /\ output_router.threads[t].pc = "call"
    /\ RouterThreadStep([output_router EXCEPT
                           !.threads[t].old_target = output_router.current_target,
                           !.threads[t].pc = "set_target"])

\* self.set_target(target), then the body of the `with` begins
EnterScope ==
  \E t \in RouterThreads :
    /\ output_router.threads[t].pc = "set_target"
    /\ RouterThreadStep([set_target(output_router, output_router.threads[t].target)
                           EXCEPT !.threads[t].pc = "yield"])

\* finally: self.set_target(old_target)
LeaveScope ==
  \E t \in RouterThreads :
    /\ output_router.threads[t].pc = "yield"
    /\ RouterThreadStep([set_target(output_router, output_router.threads[t].old_target)
                           EXCEPT !.threads[t].pc = "exited"])

NextRouterThreads ==
  \/ ReadOldTarget
  \/ EnterScope
  \/ LeaveScope

SpecRouterThreads == InitRouterThreads /\ [][NextRouterThreads]_vars

(***************************************************************************)
(* C38: when two threads each run a redirect scope on the same router, in  *)
(* any interleaving, the current target after both scopes have exited is   *)
(* the target the router had before either scope was entered.              *)
(***************************************************************************)
C38_ConcurrentRedirect ==
  (\A t \in RouterThreads : output_router.threads[t].pc = "exited")
    => output_router.current_target = last.arg

====
